---- MODULE Spec2Model ----
(***************************************************************************)
(* Model of the ruggles artwork-evaluation repository:                     *)
(*   src/streamlit_app.py            the interactive app (score curve)     *)
(*   src/utils/db.py                 flatten / un-flatten of evaluations   *)
(*   src/evaluate_images.py          batch re-evaluation and CSV export    *)
(*   src/update_database_from_csv.py CSV -> datastore update               *)
(*                                                                         *)
(* A Python dict is a function whose DOMAIN is the set of its keys; a      *)
(* Python list is a sequence; a Python str that the code only copies is a  *)
(* string, and a str that the code splits or joins is a sequence of        *)
(* one-character strings.  A number that may be a float (an average) is a  *)
(* fraction [num, den] with den > 0, compared by cross-multiplication.     *)
(***************************************************************************)
EXTENDS Integers, Sequences, FiniteSets, TLC

VARIABLES
    \* ---- score curve (streamlit_app.py) ----
    raw_scores,         \* the raw scores handed to adjust_score_on_curve
    curved_scores,      \* what adjust_score_on_curve returned for them
    \* ---- datastore and persistence mapping (utils/db.py) ----
    db,                 \* the "artworks" table: sequence of rows (dicts)
    inserted,           \* evaluation_data given to each successful insert, by row id
    fetched,            \* result of the last select: None or [data |-> rows]
    \* ---- CSV export (evaluate_images.py, save_to_csv) ----
    self_sketch_type,   \* ArtworkEvaluator.sketch_type
    results,            \* the argument of save_to_csv
    flattened_results,  \* one flat_result (ordered dict) per result
    csv_columns,        \* the column order of the data frame written
    csv_pc,             \* where save_to_csv is
    attempts,           \* the to_csv calls made: [target, outcome]
    log,                \* what save_to_csv printed
    \* ---- batch re-evaluation (evaluate_images.py, evaluate_all_images) ----
    limit,              \* ArtworkEvaluator.limit
    batch_pc,           \* where evaluate_all_images is
    queried,            \* what get_all_images returned
    artworks,           \* the artworks the loop goes over
    idx,                \* position of the loop in artworks (from 1)
    calls,              \* evaluate_image calls and sleeps, in order
    \* ---- requests to the vision evaluator (both programs) ----
    app_sketch_type,    \* the mode selected with the app's toggle
    requests,           \* the requests sent: [by, sketch_type, schema]
    \* ---- what the app shows (streamlit_app.py) ----
    displayed,          \* the score table of the last Analyze Artwork
    plot_data,          \* Previous Analyses: the points of the score plot
    listing,            \* Previous Analyses: the listed artworks' averages
    store_in_db,        \* the storage checkbox as the last Analyze Artwork saw it
    analyze_calls,      \* the external calls of the last Analyze Artwork, in order
    \* ---- the batch script's entry point (evaluate_images.py, __main__) ----
    main_pc,            \* where the script is: start, run, exit or raised
    \* ---- CSV -> datastore update (update_database_from_csv.py) ----
    csv_rows,           \* the rows csv.DictReader yields for the file
    update_pc,          \* where update_artwork_from_csv is
    row_idx,            \* position of its loop in csv_rows (from 1)
    update_calls,       \* the datastore updates attempted: [row, id, update_data, outcome]
    updated_count,      \* updated_count
    update_log,         \* what update_artwork_from_csv printed
    \* ---- tips through the CSV (save_to_csv, parse_tips) ----
    new_tips,           \* improvement_tips of a new evaluation: list of str
    tips_string,        \* the tips cell of the CSV
    parsed_tips,        \* what parse_tips returned for the cell
    tips_pc             \* start, written (cell written) or parsed

curveVars == <<raw_scores, curved_scores>>
dbVars    == <<db, inserted, fetched>>
csvVars   == <<self_sketch_type, results, flattened_results, csv_columns,
               csv_pc, attempts, log>>
batchVars == <<limit, batch_pc, queried, artworks, idx, calls>>
evalVars  == <<app_sketch_type, requests>>
viewVars  == <<displayed, plot_data, listing>>
pressVars == <<store_in_db, analyze_calls>>
mainVars  == <<main_pc>>
updateVars == <<csv_rows, update_pc, row_idx, update_calls, updated_count,
                update_log>>
tipsVars  == <<new_tips, tips_string, parsed_tips, tips_pc>>
vars      == <<curveVars, dbVars, csvVars, batchVars, evalVars, viewVars,
               pressVars, mainVars, updateVars, tipsVars>>

-----------------------------------------------------------------------------
(* Python helpers *)

None == [none |-> TRUE]

EmptyDict == [k \in {} |-> 0]

\* d.get(k, default)
Get(d, k, default) == IF k \in DOMAIN d THEN d[k] ELSE default

\* d without the keys popped from it
Without(d, keys) == [k \in (DOMAIN d) \ keys |-> d[k]]

\* d.update(e)
Update(d, e) ==
    [k \in (DOMAIN d) \cup (DOMAIN e) |-> IF k \in DOMAIN e THEN e[k] ELSE d[k]]

Max(a, b) == IF a >= b THEN a ELSE b
Min(a, b) == IF a <= b THEN a ELSE b

\* numbers as fractions
Frac(n, d) == [num |-> n, den |-> d]
Whole(n)   == Frac(n, 1)
FracEq(a, b)  == a.num * b.den = b.num * a.den
FracLeq(a, b) == a.num * b.den <= b.num * a.den
FracSub(a, b) == Frac(a.num * b.den - b.num * a.den, a.den * b.den)

-----------------------------------------------------------------------------
(* The rubric: criterion keys of the two modes *)

QuickCriteria ==
    {"proportion_and_structure", "line_quality", "form_and_volume",
     "mood_and_expression"}

RealismOnlyCriteria ==
    {"value_and_light", "detail_and_texture", "composition_and_perspective",
     "overall_realism"}

FullCriteria == QuickCriteria \cup RealismOnlyCriteria

SketchTypes == {"quick sketch", "full realism"}

\* the criteria of a mode's rubric
Rubric(mode) == IF mode = "quick sketch" THEN QuickCriteria ELSE FullCriteria

-----------------------------------------------------------------------------
(* streamlit_app.py: the score curve *)

\* a mutant that forgets the clamp at 0
adjust_score_on_curve_noclamp(raw_score) ==
    IF raw_score.num >= 16 * raw_score.den
    THEN Whole(10)
    ELSE Frac(raw_score.num - 6 * raw_score.den, raw_score.den)

adjust_score_on_curve(raw_score) ==
    IF raw_score.num >= 16 * raw_score.den
    THEN Whole(10)
    ELSE Frac(Max(0, raw_score.num - 6 * raw_score.den), raw_score.den)

MinScore == 1
MaxScore == 20

CurveInit ==
    /\ raw_scores \in (MinScore..MaxScore) \X (MinScore..MaxScore)
    /\ curved_scores = << >>

\* the app curves each raw criterion score it displays
CurveScores ==
    /\ curved_scores = << >>
    /\ curved_scores' = [i \in 1..Len(raw_scores) |->
                            adjust_score_on_curve(Whole(raw_scores[i]))]
    /\ UNCHANGED raw_scores

-----------------------------------------------------------------------------
(* utils/db.py: the persistence mapping *)

\* datastore column prefix of each criterion, as insert_artwork spells it
InsertPrefix ==
    [proportion_and_structure    |-> "proportion",
     line_quality                |-> "line_quality",
     value_and_light             |-> "value_light",
     detail_and_texture          |-> "detail_texture",
     composition_and_perspective |-> "composition_perspective",
     overall_realism             |-> "overall_realism",
     form_and_volume             |-> "form_volume",
     mood_and_expression         |-> "mood_expression"]

\* mutant: a criterion absent from the evaluation gets no columns
criterion_columns_sparse(evaluation_data, c) ==
    IF c \in DOMAIN evaluation_data
    THEN LET p  == InsertPrefix[c]
             cr == evaluation_data[c]
         IN  (p \o "_score"     :> Get(cr, "score", 0))
          @@ (p \o "_rationale" :> Get(cr, "rationale", ""))
          @@ (p \o "_tips"      :> Get(cr, "improvement_tips", << >>))
    ELSE EmptyDict

\* the three columns insert_artwork writes for criterion c
criterion_columns(evaluation_data, c) ==
    LET p  == InsertPrefix[c]
        cr == Get(evaluation_data, c, EmptyDict)
    IN  (p \o "_score"     :> Get(cr, "score", 0))
     @@ (p \o "_rationale" :> Get(cr, "rationale", ""))
     @@ (p \o "_tips"      :> Get(cr, "improvement_tips", << >>))

\* dict literal / update with the columns of several criteria
columns_of(evaluation_data, cs) ==
    LET RECURSIVE Cols(_)
        Cols(S) == IF S = {} THEN EmptyDict
                   ELSE LET c == CHOOSE x \in S : TRUE
                        IN  Update(Cols(S \ {c}), criterion_columns(evaluation_data, c))
    IN  Cols(cs)

\* mutant: the sketch type is stored as given
validated_sketch_type_unchecked(artwork_data) ==
    Get(artwork_data, "sketch_type", "full realism")

\* sketch type validation of insert_artwork
validated_sketch_type(artwork_data) ==
    LET sketch_type == Get(artwork_data, "sketch_type", "full realism")
    IN  IF sketch_type \notin {"quick sketch", "full realism"}
        THEN "full realism"
        ELSE sketch_type

\* the row `data` insert_artwork sends to the datastore
insert_row(artwork_data, now) ==
    LET evaluation_data == Get(artwork_data, "evaluation_data", EmptyDict)
        gpt_response    == Get(artwork_data, "gpt_response", "")
        sketch_type     == validated_sketch_type(artwork_data)
        data0 ==
            Update([title           |-> Get(artwork_data, "title", ""),
                    description     |-> Get(artwork_data, "description", ""),
                    image_url       |-> Get(artwork_data, "image_url", ""),
                    image_public_id |-> Get(artwork_data, "image_public_id", ""),
                    artist_name     |-> Get(artwork_data, "artist_name", ""),
                    created_at      |-> Get(artwork_data, "created_at", now),
                    artwork_date    |-> Get(artwork_data, "artwork_date", now),
                    sketch_type     |-> sketch_type,
                    question        |-> Get(artwork_data, "question", ""),
                    gpt_response    |-> gpt_response],
                   columns_of(evaluation_data,
                              {"proportion_and_structure", "line_quality"}))
        data1 ==
            IF sketch_type = "full realism"
            THEN Update(data0,
                        columns_of(evaluation_data,
                                   {"value_and_light", "detail_and_texture",
                                    "composition_and_perspective", "overall_realism"}))
            ELSE data0
    IN  Update(Update(data1,
                      columns_of(evaluation_data,
                                 {"form_and_volume", "mood_and_expression"})),
               [evaluation_version |-> "v1"])

\* datastore column prefix of each criterion, as get_all_artworks and
\* get_artwork_by_id spell it
ReadPrefix ==
    [proportion_and_structure    |-> "proportion",
     line_quality                |-> "line_quality",
     value_and_light             |-> "value_light",
     detail_and_texture          |-> "detail_texture",
     composition_and_perspective |-> "composition_perspective",
     form_and_volume             |-> "form_volume",
     mood_and_expression         |-> "mood_expression",
     overall_realism             |-> "overall_realism"]

\* { 'score': artwork.pop(p_score, 0), 'rationale': artwork.pop(p_rationale, ''),
\*   'improvement_tips': artwork.pop(p_tips, []) }
popped_criterion(artwork, c) ==
    LET p == ReadPrefix[c]
    IN  [score            |-> Get(artwork, p \o "_score", 0),
         rationale        |-> Get(artwork, p \o "_rationale", ""),
         improvement_tips |-> Get(artwork, p \o "_tips", << >>)]

\* mutant: each of the eight criteria is un-flattened only when its score
\* column is in the row
structured_criteria_sparse(artwork) ==
    {c \in FullCriteria : (ReadPrefix[c] \o "_score") \in DOMAIN artwork}

\* the criteria un-flattening puts into evaluation_data: the two original
\* ones always, each other one when its score column is in the row
structured_criteria(artwork) ==
    {"proportion_and_structure", "line_quality"}
    \cup {c \in {"value_and_light", "detail_and_texture",
                 "composition_and_perspective", "form_and_volume",
                 "mood_and_expression", "overall_realism"} :
            (ReadPrefix[c] \o "_score") \in DOMAIN artwork}

\* mutant: form_and_volume is read from the mood_expression columns
structure_artwork_swapped(artwork) ==
    LET cs     == structured_criteria(artwork)
        popped == UNION {{ReadPrefix[c] \o "_score", ReadPrefix[c] \o "_rationale",
                          ReadPrefix[c] \o "_tips"} : c \in cs}
    IN  Update(Without(artwork, popped),
               [evaluation_data |->
                   [c \in cs |-> IF c = "form_and_volume"
                                 THEN popped_criterion(artwork, "mood_and_expression")
                                 ELSE popped_criterion(artwork, c)]])

\* the transformation of one fetched row: its criterion columns are popped
\* and replaced by the nested evaluation_data
structure_artwork(artwork) ==
    LET cs     == structured_criteria(artwork)
        popped == UNION {{ReadPrefix[c] \o "_score", ReadPrefix[c] \o "_rationale",
                          ReadPrefix[c] \o "_tips"} : c \in cs}
    IN  Update(Without(artwork, popped),
               [evaluation_data |-> [c \in cs |-> popped_criterion(artwork, c)]])

\* select("*").order('created_at', desc=True): the rows, newest first
RECURSIVE order_desc(_)
order_desc(rows) ==
    IF rows = << >> THEN << >>
    ELSE LET i == CHOOSE j \in 1..Len(rows) :
                    \A k \in 1..Len(rows) :
                        \/ rows[j].created_at > rows[k].created_at
                        \/ (rows[j].created_at = rows[k].created_at /\ j <= k)
         IN  <<rows[i]>> \o order_desc([k \in 1..(Len(rows) - 1) |->
                                          IF k < i THEN rows[k] ELSE rows[k + 1]])

\* select("*").eq('id', artwork_id)
rows_with_id(rows, artwork_id) == SelectSeq(rows, LAMBDA r : r.id = artwork_id)

MaxRows == 2

\* sample evaluator output for a criterion
SampleScore ==
    [proportion_and_structure    |-> 10,
     line_quality                |-> 12,
     value_and_light             |-> 7,
     detail_and_texture          |-> 9,
     composition_and_perspective |-> 17,
     form_and_volume             |-> 13,
     mood_and_expression         |-> 15,
     overall_realism             |-> 20]

sample_result(c, complete) ==
    IF complete
    THEN [score            |-> SampleScore[c],
          rationale        |-> "about " \o c,
          improvement_tips |-> << <<"t", "i", "p">>, <<"o", "f">> >>]
    ELSE [score |-> SampleScore[c]]

\* the criteria sets of the evaluation records handed to insert_artwork
SampleCriteriaSets ==
    {QuickCriteria, FullCriteria,
     {}, {"proportion_and_structure"},
     {"proportion_and_structure", "line_quality", "value_and_light"},
     FullCriteria \ {"overall_realism"}}

\* artwork_data dicts, as the app builds them (streamlit_app.py 648-660), with
\* and without a sketch_type, valid or not
ArtworkInputs(now) ==
    LET base(cs, complete) ==
            [title           |-> "generated title",
             description     |-> "Standard evaluation v0",
             image_url       |-> "https://img/1",
             image_public_id |-> "artwork/1",
             artist_name     |-> "artist",
             created_at      |-> now,
             artwork_date    |-> now,
             question        |-> "Standard evaluation v0",
             gpt_response    |-> "{...}",
             evaluation_data |-> [c \in cs |-> sample_result(c, complete)]]
    IN  {base(cs, complete) : cs \in SampleCriteriaSets, complete \in BOOLEAN}
        \cup {Update(base(cs, complete), [sketch_type |-> st]) :
                cs \in SampleCriteriaSets, complete \in BOOLEAN,
                st \in {"quick sketch", "full realism", "watercolor"}}

DbInit ==
    /\ db = << >>
    /\ inserted = << >>
    /\ fetched = None

\* insert_artwork(artwork_data): one row appended, unless the client is
\* missing or the insert raises (both return None)
InsertArtwork ==
    /\ Len(db) < MaxRows
    /\ \E ok \in BOOLEAN :
       \E artwork_data \in ArtworkInputs(Len(db) + 1) :
          IF ok
          THEN /\ db' = Append(db, Update(insert_row(artwork_data, Len(db) + 1),
                                          [id |-> Len(db) + 1]))
               /\ inserted' = Append(inserted, artwork_data)
          ELSE UNCHANGED <<db, inserted>>
    /\ UNCHANGED fetched

\* get_all_artworks(): every row, newest first, each one structured
GetAllArtworks ==
    /\ \E ok \in BOOLEAN :
          fetched' = IF ok
                     THEN LET data == order_desc(db)
                          IN  [data |-> [i \in 1..Len(data) |-> structure_artwork(data[i])]]
                     ELSE None
    /\ UNCHANGED <<db, inserted>>

\* get_artwork_by_id(artwork_id): only the first matching row is structured
GetArtworkById ==
    /\ \E ok \in BOOLEAN :
       \E artwork_id \in 1..(MaxRows + 1) :
          fetched' = IF ok
                     THEN LET data == rows_with_id(db, artwork_id)
                          IN  [data |-> [i \in 1..Len(data) |->
                                           IF i = 1 THEN structure_artwork(data[i])
                                           ELSE data[i]]]
                     ELSE None
    /\ UNCHANGED <<db, inserted>>

-----------------------------------------------------------------------------
(* evaluate_images.py: save_to_csv *)

\* an insertion-ordered dict: the mapping d and its keys in insertion order
EmptyOrdered == [d |-> EmptyDict, keys |-> << >>]

\* od[k] = v
Put(od, k, v) ==
    [d    |-> Update(od.d, (k :> v)),
     keys |-> IF k \in DOMAIN od.d THEN od.keys ELSE Append(od.keys, k)]

\* sep.join(strs), strings being sequences of characters
RECURSIVE join(_, _)
join(sep, strs) ==
    IF strs = << >> THEN << >>
    ELSE IF Len(strs) = 1 THEN strs[1]
    ELSE strs[1] \o sep \o join(sep, Tail(strs))

RECURSIVE sum(_)
sum(scores) == IF scores = << >> THEN 0 ELSE Head(scores) + sum(Tail(scores))

\* mutant: the full-realism criteria are never added
criteria_fields_quick_only(sketch_type, flat_sketch_type) ==
    <<"proportion_and_structure", "line_quality", "form_and_volume",
      "mood_and_expression">>

\* the criteria save_to_csv processes for one result
criteria_fields(sketch_type, flat_sketch_type) ==
    <<"proportion_and_structure", "line_quality", "form_and_volume",
      "mood_and_expression">>
    \o (IF sketch_type = "full realism" \/ flat_sketch_type = "full realism"
        THEN <<"value_and_light", "detail_and_texture",
               "composition_and_perspective", "overall_realism">>
        ELSE << >>)

\* mutant: the export's curve without its cap
csv_curved_score_uncapped(avg_score) ==
    Frac(Max(0, avg_score.num - 8 * avg_score.den), avg_score.den)

\* the curve save_to_csv applies to an average
csv_curved_score(avg_score) ==
    IF avg_score.num >= 18 * avg_score.den
    THEN Whole(10)
    ELSE Frac(Max(0, avg_score.num - 8 * avg_score.den), avg_score.den)

\* the body of `for criteria in criteria_fields`.  acc holds the locals of
\* the loop: flat (flat_result), new_score (unbound before its first
\* assignment), new_scores, existing_scores, and raised (a NameError left
\* the loop)
process_criteria(acc, criteria, new_evaluation, existing_evaluation) ==
    LET a1 ==
            IF criteria \in DOMAIN new_evaluation
            THEN LET cr   == new_evaluation[criteria]
                     has  == "score" \in DOMAIN cr
                     tips == Get(cr, "improvement_tips", << >>)
                     f1   == Put(acc.flat, "new_" \o criteria \o "_score",
                                 IF has THEN cr.score ELSE None)
                     f2   == Put(f1, "new_" \o criteria \o "_rationale",
                                 Get(cr, "rationale", ""))
                     f3   == Put(f2, "new_" \o criteria \o "_tips",
                                 IF tips # << >> THEN join(<<";", " ">>, tips)
                                 ELSE << >>)
                     truthy == has /\ cr.score # 0
                 IN  [acc EXCEPT
                        !.flat = f3,
                        !.new_score = [bound  |-> TRUE,
                                       truthy |-> truthy,
                                       value  |-> IF has THEN cr.score ELSE None],
                        !.new_scores = IF truthy THEN Append(@, cr.score) ELSE @]
            ELSE acc
        a2 ==
            IF criteria \in DOMAIN existing_evaluation
            THEN LET cr     == existing_evaluation[criteria]
                     has    == "score" \in DOMAIN cr
                     truthy == has /\ cr.score # 0
                     f1     == Put(a1.flat, "existing_" \o criteria \o "_score",
                                   IF has THEN cr.score ELSE None)
                     a11    == [a1 EXCEPT
                                  !.flat = f1,
                                  !.existing_scores =
                                      IF truthy THEN Append(@, cr.score) ELSE @]
                 IN  IF ~a1.new_score.bound
                     THEN [a11 EXCEPT !.raised = TRUE]
                     ELSE IF a1.new_score.truthy /\ truthy
                     THEN [a11 EXCEPT
                             !.flat = Put(f1, criteria \o "_score_diff",
                                          a1.new_score.value - cr.score)]
                     ELSE a11
            ELSE a1
    IN  IF acc.raised THEN acc ELSE a2

RECURSIVE process_all(_, _, _, _)
process_all(acc, fields, new_evaluation, existing_evaluation) ==
    IF fields = << >> THEN acc
    ELSE process_all(process_criteria(acc, Head(fields), new_evaluation,
                                      existing_evaluation),
                     Tail(fields), new_evaluation, existing_evaluation)

\* mutant: the existing average is computed whether or not there are scores
with_averages_unguarded(acc) ==
    LET existing_avg_score == Frac(sum(acc.existing_scores), Len(acc.existing_scores))
        new_avg_score      == Frac(sum(acc.new_scores), Len(acc.new_scores))
        f1 == Put(Put(acc.flat, "existing_average_raw_score", existing_avg_score),
                  "existing_average_curved_score",
                  csv_curved_score(existing_avg_score))
        f2 == IF acc.new_scores # << >>
              THEN Put(Put(f1, "new_average_raw_score", new_avg_score),
                       "new_average_curved_score", csv_curved_score(new_avg_score))
              ELSE f1
    IN  IF acc.new_scores # << >>
        THEN Put(Put(f2, "average_score_diff",
                     FracSub(new_avg_score, existing_avg_score)),
                 "average_curved_score_diff",
                 FracSub(csv_curved_score(new_avg_score),
                         csv_curved_score(existing_avg_score)))
        ELSE f2

\* the average columns added after the loop
with_averages(acc) ==
    LET existing_avg_score == Frac(sum(acc.existing_scores), Len(acc.existing_scores))
        new_avg_score      == Frac(sum(acc.new_scores), Len(acc.new_scores))
        f1 == IF acc.existing_scores # << >>
              THEN Put(Put(acc.flat, "existing_average_raw_score", existing_avg_score),
                       "existing_average_curved_score",
                       csv_curved_score(existing_avg_score))
              ELSE acc.flat
        f2 == IF acc.new_scores # << >>
              THEN Put(Put(f1, "new_average_raw_score", new_avg_score),
                       "new_average_curved_score", csv_curved_score(new_avg_score))
              ELSE f1
    IN  IF acc.new_scores # << >> /\ acc.existing_scores # << >>
        THEN Put(Put(f2, "average_score_diff",
                     FracSub(new_avg_score, existing_avg_score)),
                 "average_curved_score_diff",
                 FracSub(csv_curved_score(new_avg_score),
                         csv_curved_score(existing_avg_score)))
        ELSE f2

\* one iteration of `for result in results`: the flat_result of a result, or
\* raised when the loop over the criteria raised
flat_result(result, sketch_type) ==
    LET flat0 ==
            Put(Put(Put(Put(Put(Put(EmptyOrdered,
                "id", Get(result, "id", None)),
                "title", Get(result, "title", None)),
                "artist_name", Get(result, "artist_name", None)),
                "created_at", Get(result, "created_at", None)),
                "image_url", Get(result, "image_url", None)),
                "sketch_type", Get(result, "sketch_type", sketch_type))
        new_evaluation      == Get(result, "new_evaluation", EmptyDict)
        flat1 == Put(flat0, "generated_title",
                     Get(new_evaluation, "generated_title", ""))
        existing_evaluation == Get(result, "evaluation_data", EmptyDict)
        fields == criteria_fields(sketch_type, flat1.d["sketch_type"])
        acc == process_all([flat            |-> flat1,
                            new_score       |-> [bound |-> FALSE],
                            new_scores      |-> << >>,
                            existing_scores |-> << >>,
                            raised          |-> FALSE],
                           fields, new_evaluation, existing_evaluation)
    IN  IF acc.raised
        THEN [raised |-> TRUE]
        ELSE [raised |-> FALSE, flat |-> with_averages(acc)]

\* pd.DataFrame(flattened_results).columns: the keys in order of first
\* appearance
RECURSIVE frame_columns(_)
frame_columns(flats) ==
    IF flats = << >> THEN << >>
    ELSE LET before == frame_columns(SubSeq(flats, 1, Len(flats) - 1))
             seen   == {before[i] : i \in 1..Len(before)}
         IN  before \o SelectSeq(flats[Len(flats)].keys, LAMBDA k : k \notin seen)

RECURSIVE criteria_columns(_)
criteria_columns(fields) ==
    IF fields = << >> THEN << >>
    ELSE << "existing_" \o Head(fields) \o "_score",
            "new_" \o Head(fields) \o "_score",
            Head(fields) \o "_score_diff",
            "new_" \o Head(fields) \o "_rationale",
            "new_" \o Head(fields) \o "_tips" >>
         \o criteria_columns(Tail(fields))

\* column_order, built with the criteria_fields left by the last iteration
column_order(last_fields) ==
    << "id", "title", "artist_name", "created_at", "sketch_type",
       "generated_title", "image_url",
       "existing_average_raw_score", "new_average_raw_score", "average_score_diff",
       "existing_average_curved_score", "new_average_curved_score",
       "average_curved_score_diff" >>
    \o criteria_columns(last_fields)

\* mutant: the columns in the order the frame holds them
ordered_columns_as_framed(flats, last_fields) == frame_columns(flats)

\* available_columns + remaining_columns
ordered_columns(flats, last_fields) ==
    LET df_columns == frame_columns(flats)
        order      == column_order(last_fields)
        in_df      == {df_columns[i] : i \in 1..Len(df_columns)}
        in_order   == {order[i] : i \in 1..Len(order)}
    IN  SelectSeq(order, LAMBDA col : col \in in_df)
        \o SelectSeq(df_columns, LAMBDA col : col \notin in_order)

WriteOutcomes == {"ok", "PermissionError", "OSError"}

\* mutant: a permission failure goes straight to the home directory
write_chain_home_first(target, outcome) ==
    CASE target = "original" /\ outcome = "ok" ->
            [pc |-> "returned", printed |-> "Results saved to csv_output_path"]
      [] target = "original" /\ outcome = "PermissionError" ->
            [pc |-> "write_home", printed |-> ""]
      [] target = "original" /\ outcome \notin {"ok", "PermissionError"} ->
            [pc |-> "returned", printed |-> "Error saving CSV"]
      [] target = "timestamped" /\ outcome = "ok" ->
            [pc |-> "returned",
             printed |-> "Original file was inaccessible. Results saved to new_filename instead."]
      [] target = "timestamped" /\ outcome # "ok" ->
            [pc |-> "write_home", printed |-> "Error saving CSV"]
      [] target = "home" /\ outcome = "ok" ->
            [pc |-> "returned", printed |-> "Results saved to last_resort_file"]
      [] target = "home" /\ outcome # "ok" ->
            [pc |-> "returned", printed |-> "Failed to save results"]

\* mutant: the last-resort write is not wrapped in a try
write_chain_home_raises(target, outcome) ==
    CASE target = "original" /\ outcome = "ok" ->
            [pc |-> "returned", printed |-> "Results saved to csv_output_path"]
      [] target = "original" /\ outcome = "PermissionError" ->
            [pc |-> "write_timestamped", printed |-> ""]
      [] target = "original" /\ outcome \notin {"ok", "PermissionError"} ->
            [pc |-> "returned", printed |-> "Error saving CSV"]
      [] target = "timestamped" /\ outcome = "ok" ->
            [pc |-> "returned",
             printed |-> "Original file was inaccessible. Results saved to new_filename instead."]
      [] target = "timestamped" /\ outcome # "ok" ->
            [pc |-> "write_home", printed |-> "Error saving CSV"]
      [] target = "home" /\ outcome = "ok" ->
            [pc |-> "returned", printed |-> "Results saved to last_resort_file"]
      [] target = "home" /\ outcome # "ok" ->
            [pc |-> "raised", printed |-> ""]

\* the try/except chain around df.to_csv: where the call goes after an
\* attempt on `target` ended with `outcome`, and what it prints
write_chain(target, outcome) ==
    CASE target = "original" /\ outcome = "ok" ->
            [pc |-> "returned", printed |-> "Results saved to csv_output_path"]
      [] target = "original" /\ outcome = "PermissionError" ->
            [pc |-> "write_timestamped", printed |-> ""]
      [] target = "original" /\ outcome \notin {"ok", "PermissionError"} ->
            [pc |-> "returned", printed |-> "Error saving CSV"]
      [] target = "timestamped" /\ outcome = "ok" ->
            [pc |-> "returned",
             printed |-> "Original file was inaccessible. Results saved to new_filename instead."]
      [] target = "timestamped" /\ outcome # "ok" ->
            [pc |-> "write_home", printed |-> "Error saving CSV"]
      [] target = "home" /\ outcome = "ok" ->
            [pc |-> "returned", printed |-> "Results saved to last_resort_file"]
      [] target = "home" /\ outcome # "ok" ->
            [pc |-> "returned", printed |-> "Failed to save results"]

\* the write target tried at each position of save_to_csv
target_of(pc) ==
    CASE pc = "write_original"    -> "original"
      [] pc = "write_timestamped" -> "timestamped"
      [] pc = "write_home"        -> "home"

\* save_to_csv(results) up to the first df.to_csv call
SaveToCsvFlatten ==
    /\ csv_pc = "start"
    /\ IF results = << >>
       THEN /\ log' = Append(log, "No results to save.")
            /\ csv_pc' = "returned"
            /\ UNCHANGED <<flattened_results, csv_columns>>
       ELSE LET flats == [i \in 1..Len(results) |->
                            flat_result(results[i], self_sketch_type)]
                last  == results[Len(results)]
            IN  IF \E i \in 1..Len(flats) : flats[i].raised
                THEN /\ csv_pc' = "raised"
                     /\ UNCHANGED <<flattened_results, csv_columns, log>>
                ELSE /\ flattened_results' = [i \in 1..Len(flats) |-> flats[i].flat]
                     /\ csv_columns' =
                           ordered_columns(
                               [i \in 1..Len(flats) |-> flats[i].flat],
                               criteria_fields(self_sketch_type,
                                               Get(last, "sketch_type",
                                                   self_sketch_type)))
                     /\ csv_pc' = "write_original"
                     /\ UNCHANGED log
    /\ UNCHANGED <<self_sketch_type, results, attempts>>

\* one df.to_csv call and the handler of its outcome
SaveToCsvWrite ==
    /\ csv_pc \in {"write_original", "write_timestamped", "write_home"}
    /\ \E outcome \in WriteOutcomes :
          LET step == write_chain(target_of(csv_pc), outcome)
          IN  /\ attempts' = Append(attempts, [target  |-> target_of(csv_pc),
                                               outcome |-> outcome])
              /\ csv_pc' = step.pc
              /\ log' = IF step.printed = "" THEN log ELSE Append(log, step.printed)
    /\ UNCHANGED <<self_sketch_type, results, flattened_results, csv_columns>>

-----------------------------------------------------------------------------
(* The structured-output schema sent to the vision evaluator *)

\* the schema of one criterion object (the same literal for every criterion,
\* in both programs)
criterion_schema ==
    [type       |-> "object",
     properties |-> [score            |-> [type |-> "integer"],
                     rationale        |-> [type |-> "string"],
                     improvement_tips |-> [type  |-> "array",
                                           items |-> [type |-> "string"]]],
     required   |-> <<"score", "rationale", "improvement_tips">>,
     additionalProperties |-> FALSE]

\* mutant: the full-realism properties are added in every mode
evaluate_image_schema_always_full(sketch_type) ==
    [type       |-> "object",
     properties |-> [generated_title             |-> [type |-> "string"],
                     proportion_and_structure    |-> criterion_schema,
                     line_quality                |-> criterion_schema,
                     form_and_volume             |-> criterion_schema,
                     mood_and_expression         |-> criterion_schema,
                     value_and_light             |-> criterion_schema,
                     detail_and_texture          |-> criterion_schema,
                     composition_and_perspective |-> criterion_schema,
                     overall_realism             |-> criterion_schema],
     required   |-> <<"generated_title", "proportion_and_structure", "line_quality",
                      "value_and_light", "detail_and_texture",
                      "composition_and_perspective", "form_and_volume",
                      "mood_and_expression", "overall_realism">>,
     additionalProperties |-> FALSE]

\* evaluate_images.py, evaluate_image: the schema built for self.sketch_type
evaluate_image_schema(sketch_type) ==
    LET schema ==
            [type       |-> "object",
             properties |-> [generated_title          |-> [type |-> "string"],
                             proportion_and_structure |-> criterion_schema,
                             line_quality             |-> criterion_schema,
                             form_and_volume          |-> criterion_schema,
                             mood_and_expression      |-> criterion_schema],
             required   |-> <<"generated_title", "proportion_and_structure",
                              "line_quality", "form_and_volume",
                              "mood_and_expression">>,
             additionalProperties |-> FALSE]
    IN  IF sketch_type = "full realism"
        THEN [schema EXCEPT
                !.properties =
                    Update(@, [value_and_light             |-> criterion_schema,
                               detail_and_texture          |-> criterion_schema,
                               composition_and_perspective |-> criterion_schema,
                               overall_realism             |-> criterion_schema]),
                !.required =
                    <<"generated_title", "proportion_and_structure", "line_quality",
                      "value_and_light", "detail_and_texture",
                      "composition_and_perspective", "form_and_volume",
                      "mood_and_expression", "overall_realism">>]
        ELSE schema

\* mutant: the full-realism properties are never added
app_schema_quick_only(sketch_type) ==
    [type       |-> "object",
     properties |-> [generated_title          |-> [type |-> "string"],
                     proportion_and_structure |-> criterion_schema,
                     line_quality             |-> criterion_schema,
                     form_and_volume          |-> criterion_schema,
                     mood_and_expression      |-> criterion_schema],
     required   |-> <<"generated_title", "proportion_and_structure",
                      "line_quality", "form_and_volume",
                      "mood_and_expression">>,
     additionalProperties |-> FALSE]

\* streamlit_app.py, Analyze Artwork: the schema built for the toggle's mode
app_schema(sketch_type) ==
    LET schema ==
            [type       |-> "object",
             properties |-> [generated_title          |-> [type |-> "string"],
                             proportion_and_structure |-> criterion_schema,
                             line_quality             |-> criterion_schema,
                             form_and_volume          |-> criterion_schema,
                             mood_and_expression      |-> criterion_schema],
             required   |-> <<"generated_title", "proportion_and_structure",
                              "line_quality", "form_and_volume",
                              "mood_and_expression">>,
             additionalProperties |-> FALSE]
    IN  IF sketch_type = "full realism"
        THEN [schema EXCEPT
                !.properties =
                    Update(@, [value_and_light             |-> criterion_schema,
                               detail_and_texture          |-> criterion_schema,
                               composition_and_perspective |-> criterion_schema,
                               overall_realism             |-> criterion_schema]),
                !.required =
                    <<"generated_title", "proportion_and_structure", "line_quality",
                      "value_and_light", "detail_and_texture",
                      "composition_and_perspective", "form_and_volume",
                      "mood_and_expression", "overall_realism">>]
        ELSE schema

MaxResults == 2

\* score tables the evaluator answers with, and the datastore holds
ScorePattern(k) == [c \in FullCriteria |-> ((SampleScore[c] + 4 * k - 1) % 20) + 1]
TopScores       == [c \in FullCriteria |-> 20]
\* a legacy row without a proportion_score column reads back with score 0
LegacyScores    == [ScorePattern(0) EXCEPT !["proportion_and_structure"] = 0]

scored(cs, pattern) ==
    [c \in cs |-> [sample_result(c, TRUE) EXCEPT !.score = pattern[c]]]

\* what evaluate_image returns in a mode: the strict schema's object
new_evaluations(sketch_type, patterns) ==
    {Update([generated_title |-> "generated title"],
            scored(Rubric(sketch_type), pattern)) : pattern \in patterns}

\* the evaluation_data get_all_artworks hands over: the two original
\* criteria always, the others as stored
existing_evaluations(patterns) ==
    {scored(cs, pattern) :
        cs \in {{"proportion_and_structure", "line_quality"},
                QuickCriteria, FullCriteria},
        pattern \in patterns}

\* the dicts evaluate_all_images appends to its results
result_of(row_sketch_type, existing, new) ==
    [id              |-> 1,
     title           |-> "title",
     artist_name     |-> "artist",
     created_at      |-> 1,
     image_url       |-> "https://img/1",
     sketch_type     |-> row_sketch_type,
     evaluation_data |-> existing,
     new_evaluation  |-> new]

ResultInputs(sketch_type) ==
    {result_of(st, existing, new) :
        st \in SketchTypes,
        existing \in existing_evaluations({ScorePattern(0), ScorePattern(2),
                                           TopScores, LegacyScores}),
        new \in new_evaluations(sketch_type,
                                {ScorePattern(0), ScorePattern(1), ScorePattern(2),
                                 TopScores})}

\* the results of batches of more than one artwork
BatchResultInputs(sketch_type) ==
    {result_of(st, existing, new) :
        st \in SketchTypes,
        existing \in {scored(QuickCriteria, ScorePattern(0)),
                      scored(FullCriteria, ScorePattern(0))},
        new \in new_evaluations(sketch_type, {ScorePattern(1)})}

CsvInit ==
    /\ self_sketch_type \in SketchTypes
    /\ results \in {<< >>}
                   \cup {<<r>> : r \in ResultInputs(self_sketch_type)}
                   \cup UNION {[1..n -> BatchResultInputs(self_sketch_type)] :
                                 n \in 2..MaxResults}
    /\ flattened_results = << >>
    /\ csv_columns = << >>
    /\ csv_pc = "start"
    /\ attempts = << >>
    /\ log = << >>

-----------------------------------------------------------------------------
(* evaluate_images.py: the batch re-evaluation, evaluate_all_images *)

\* get_all_artworks of evaluate_images.py: the script's own copy of the
\* un-flattening of one row
batch_structure_artwork(artwork) ==
    LET cs     == {"proportion_and_structure", "line_quality"}
                  \cup {c \in {"value_and_light", "detail_and_texture",
                               "composition_and_perspective", "form_and_volume",
                               "mood_and_expression", "overall_realism"} :
                          (ReadPrefix[c] \o "_score") \in DOMAIN artwork}
        popped == UNION {{ReadPrefix[c] \o "_score", ReadPrefix[c] \o "_rationale",
                          ReadPrefix[c] \o "_tips"} : c \in cs}
    IN  Update(Without(artwork, popped),
               [evaluation_data |->
                   [c \in cs |->
                       [score            |-> Get(artwork, ReadPrefix[c] \o "_score", 0),
                        rationale        |-> Get(artwork, ReadPrefix[c] \o "_rationale", ""),
                        improvement_tips |-> Get(artwork, ReadPrefix[c] \o "_tips", << >>)]]])

\* get_all_artworks of evaluate_images.py: the result object, or None when
\* the client is missing or the query raises
batch_get_all_artworks(rows, ok) ==
    IF ok
    THEN LET data == order_desc(rows)
         IN  [data |-> [i \in 1..Len(data) |-> batch_structure_artwork(data[i])]]
    ELSE None

\* get_all_images: the list of artworks, empty when nothing came back
get_all_images(result) ==
    IF result = None \/ result.data = << >> THEN << >> ELSE result.data

\* mutant: the limit is not applied
limit_artworks_unlimited(all_artworks, lim) == all_artworks

\* if self.limit > 0 and len(artworks) > self.limit: artworks = artworks[:self.limit]
limit_artworks(all_artworks, lim) ==
    IF lim > 0 /\ Len(all_artworks) > lim
    THEN SubSeq(all_artworks, 1, lim)
    ELSE all_artworks

\* mutant: the existing evaluation is not carried into the result
batch_artwork_data_no_evaluation(artwork) ==
    [id              |-> Get(artwork, "id", None),
     title           |-> Get(artwork, "title", "Untitled"),
     artist_name     |-> Get(artwork, "artist_name", "Unknown"),
     created_at      |-> Get(artwork, "created_at", ""),
     image_url       |-> Get(artwork, "image_url", ""),
     sketch_type     |-> Get(artwork, "sketch_type", "full realism"),
     evaluation_data |-> EmptyDict]

\* the metadata the loop copies from an artwork
batch_artwork_data(artwork) ==
    [id              |-> Get(artwork, "id", None),
     title           |-> Get(artwork, "title", "Untitled"),
     artist_name     |-> Get(artwork, "artist_name", "Unknown"),
     created_at      |-> Get(artwork, "created_at", ""),
     image_url       |-> Get(artwork, "image_url", ""),
     sketch_type     |-> Get(artwork, "sketch_type", "full realism"),
     evaluation_data |-> Get(artwork, "evaluation_data", EmptyDict)]

\* evaluate_image finds no image to send: no image_url and no image_public_id
no_image(artwork) ==
    /\ Get(artwork, "image_url", "") = ""
    /\ Get(artwork, "image_public_id", "") = ""

\* what evaluate_image can return for an artwork: None (no image, a failed
\* call, an unparseable answer) or the evaluation the schema describes
evaluate_image_returns(artwork, sketch_type) ==
    IF no_image(artwork)
    THEN {None}
    ELSE {None} \cup new_evaluations(sketch_type, {ScorePattern(1)})

\* the request evaluate_image sends
evaluate_image_request(sketch_type) ==
    [by          |-> "evaluate_images",
     sketch_type |-> sketch_type,
     schema      |-> evaluate_image_schema(sketch_type)]

\* mutant: a result is appended whatever evaluate_image returned
results_after_always(res, artwork_data, new_evaluation) ==
    Append(res, Update(artwork_data, [new_evaluation |-> new_evaluation]))

\* if new_evaluation: results.append({**artwork_data, "new_evaluation": ...})
results_after(res, artwork_data, new_evaluation) ==
    IF new_evaluation # None
    THEN Append(res, Update(artwork_data, [new_evaluation |-> new_evaluation]))
    ELSE res

MaxArtworks  == 6
DefaultLimit == 5
Limits       == {0, 1, 3, DefaultLimit}

\* the artwork_data the app stored for the k-th artwork of the datastore
stored_artwork_data(k) ==
    LET sketch_type == IF k % 2 = 1 THEN "full realism" ELSE "quick sketch"
    IN  [title           |-> "generated title",
         description     |-> "Standard evaluation v0",
         image_url       |-> "https://img/1",
         image_public_id |-> "artwork/1",
         artist_name     |-> "artist",
         created_at      |-> k,
         artwork_date    |-> k,
         sketch_type     |-> sketch_type,
         question        |-> "Standard evaluation v0",
         gpt_response    |-> "{...}",
         evaluation_data |-> Update([generated_title |-> "generated title"],
                                    scored(Rubric(sketch_type), ScorePattern(0)))]

BatchInit ==
    /\ limit \in Limits
    /\ self_sketch_type \in SketchTypes
    /\ \E n \in 0..MaxArtworks :
          /\ inserted = [k \in 1..n |-> stored_artwork_data(k)]
          /\ db = [k \in 1..n |-> Update(insert_row(stored_artwork_data(k), k),
                                         [id |-> k])]
    /\ fetched = None
    /\ batch_pc = "start"
    /\ queried = << >>
    /\ artworks = << >>
    /\ idx = 0
    /\ calls = << >>
    /\ results = << >>
    /\ flattened_results = << >>
    /\ csv_columns = << >>
    /\ csv_pc = "idle"
    /\ attempts = << >>
    /\ log = << >>

\* evaluate_all_images up to its loop: the artworks are fetched and limited;
\* with nothing to evaluate it returns and run_evaluation calls save_to_csv
EvaluateAllImagesStart ==
    /\ batch_pc = "start"
    /\ \E ok \in BOOLEAN :
          LET all_artworks == get_all_images(batch_get_all_artworks(db, ok))
              selected     == limit_artworks(all_artworks, limit)
          IN  /\ queried' = all_artworks
              /\ artworks' = selected
              /\ idx' = 1
              /\ results' = << >>
              /\ IF selected = << >>
                 THEN batch_pc' = "done" /\ csv_pc' = "start"
                 ELSE batch_pc' = "evaluate" /\ csv_pc' = csv_pc
    /\ UNCHANGED <<limit, calls, self_sketch_type, flattened_results, csv_columns,
                   attempts, log, evalVars>>

\* one iteration up to the sleep: evaluate_image is called on the artwork
\* and its answer, when there is one, appended to the results
EvaluateNextImage ==
    /\ batch_pc = "evaluate"
    /\ LET artwork      == artworks[idx]
           artwork_data == batch_artwork_data(artwork)
       IN  \E new_evaluation \in evaluate_image_returns(artwork, self_sketch_type) :
              /\ calls' = Append(calls, [op       |-> "evaluate_image",
                                         id       |-> artwork.id,
                                         returned |-> new_evaluation])
              /\ requests' = IF no_image(artwork)
                             THEN requests
                             ELSE Append(requests,
                                         evaluate_image_request(self_sketch_type))
              /\ results' = results_after(results, artwork_data, new_evaluation)
    /\ batch_pc' = "sleep"
    /\ UNCHANGED <<limit, queried, artworks, idx, self_sketch_type,
                   flattened_results, csv_columns, csv_pc, attempts, log,
                   app_sketch_type>>

\* mutant: time.sleep(1) inside "if new_evaluation:", so that a failed
\* evaluation is followed at once by the next one
Sleep_after_success_only ==
    /\ batch_pc = "sleep"
    /\ calls' = IF calls[Len(calls)].returned = None
                THEN calls
                ELSE Append(calls, [op |-> "sleep"])
    /\ IF idx < Len(artworks)
       THEN idx' = idx + 1 /\ batch_pc' = "evaluate" /\ csv_pc' = csv_pc
       ELSE idx' = idx /\ batch_pc' = "done" /\ csv_pc' = "start"
    /\ UNCHANGED <<limit, queried, artworks, self_sketch_type, results,
                   flattened_results, csv_columns, attempts, log, evalVars>>

\* time.sleep(1), then the next artwork; after the last one the results are
\* returned and run_evaluation calls save_to_csv
Sleep ==
    /\ batch_pc = "sleep"
    /\ calls' = Append(calls, [op |-> "sleep"])
    /\ IF idx < Len(artworks)
       THEN idx' = idx + 1 /\ batch_pc' = "evaluate" /\ csv_pc' = csv_pc
       ELSE idx' = idx /\ batch_pc' = "done" /\ csv_pc' = "start"
    /\ UNCHANGED <<limit, queried, artworks, self_sketch_type, results,
                   flattened_results, csv_columns, attempts, log, evalVars>>

-----------------------------------------------------------------------------
(* evaluate_images.py: the script's entry point *)

\* the __main__ block up to run_evaluation: argparse admits the two sketch
\* types and any integer limit; ArtworkEvaluator(...) is constructed outside
\* any try and its __init__ raises ValueError without OPENAI_API_KEY; a
\* prompt file that cannot be read is reported and the run goes on
MainStart ==
    /\ main_pc = "start"
    /\ \E openai_api_key \in BOOLEAN :
       \E sketch_type \in SketchTypes :
       \E lim \in Limits :
       \E prompt_file \in {"none", "read", "unreadable"} :
          IF ~openai_api_key
          THEN /\ main_pc' = "raised"
               /\ UNCHANGED <<self_sketch_type, limit, batch_pc, log>>
          ELSE /\ main_pc' = "run"
               /\ self_sketch_type' = sketch_type
               /\ limit' = lim
               /\ batch_pc' = "start"
               /\ log' = CASE prompt_file = "none" -> log
                           [] prompt_file = "read" ->
                                Append(log, "Loaded custom prompt from prompt_file")
                           [] prompt_file = "unreadable" ->
                                Append(log, "Error loading prompt file")
    /\ UNCHANGED <<queried, artworks, idx, calls, results, flattened_results,
                   csv_columns, csv_pc, attempts, evalVars>>

\* run_evaluation after save_to_csv: "Evaluation complete!" and the end of
\* the script, or the exception save_to_csv let through
MainEnd ==
    /\ main_pc = "run"
    /\ csv_pc \in {"returned", "raised"}
    /\ batch_pc = "done"
    /\ IF csv_pc = "returned"
       THEN main_pc' = "exit" /\ log' = Append(log, "Evaluation complete!")
       ELSE main_pc' = "raised" /\ log' = log
    /\ batch_pc' = "idle"
    /\ UNCHANGED <<self_sketch_type, limit, queried, artworks, idx, calls, results,
                   flattened_results, csv_columns, csv_pc, attempts, evalVars>>

\* the script started on a datastore of stored artworks
MainInit ==
    /\ main_pc = "start"
    /\ limit = DefaultLimit
    /\ self_sketch_type = "full realism"
    /\ \E n \in 0..MaxArtworks :
          /\ inserted = [k \in 1..n |-> stored_artwork_data(k)]
          /\ db = [k \in 1..n |-> Update(insert_row(stored_artwork_data(k), k),
                                         [id |-> k])]
    /\ fetched = None
    /\ batch_pc = "idle"
    /\ queried = << >>
    /\ artworks = << >>
    /\ idx = 0
    /\ calls = << >>
    /\ results = << >>
    /\ flattened_results = << >>
    /\ csv_columns = << >>
    /\ csv_pc = "idle"
    /\ attempts = << >>
    /\ log = << >>

-----------------------------------------------------------------------------
(* The two programs' requests to the vision evaluator *)

MaxRequests == 2

\* sketch types a caller can hand to the ArtworkEvaluator
SketchTypeInputs == {"quick sketch", "full realism", "watercolor"}

\* the evaluator call raising, and an answer json.loads cannot parse
Raised      == [raised |-> TRUE]
Unparseable == [unparseable |-> TRUE]

\* the request the app's Analyze Artwork sends
app_request(sketch_type) ==
    [by          |-> "streamlit_app",
     sketch_type |-> sketch_type,
     schema      |-> app_schema(sketch_type)]

\* ArtworkEvaluator(sketch_type=...) stores the value as given; the app starts
\* with a mode selected
EvaluatorInit ==
    /\ self_sketch_type \in SketchTypeInputs
    /\ app_sketch_type \in SketchTypes
    /\ requests = << >>

\* set_sketch_type(sketch_type)
SetSketchType ==
    /\ \E sketch_type \in SketchTypeInputs :
          self_sketch_type' = IF sketch_type \notin {"quick sketch", "full realism"}
                              THEN "full realism"
                              ELSE sketch_type
    /\ UNCHANGED <<db, inserted, app_sketch_type, requests>>

\* evaluate_image(artwork), called on an artwork of the datastore
EvaluateImage ==
    /\ Len(requests) < MaxRequests
    /\ \E k \in 1..Len(db) :
          LET artwork == batch_structure_artwork(db[k])
          IN  requests' = IF no_image(artwork)
                          THEN requests
                          ELSE Append(requests,
                                      evaluate_image_request(self_sketch_type))
    /\ UNCHANGED <<db, inserted, self_sketch_type, app_sketch_type>>

\* the app's mode toggle
SelectSketchType ==
    /\ \E sketch_type_value \in BOOLEAN :
          app_sketch_type' = IF sketch_type_value THEN "full realism"
                             ELSE "quick sketch"
    /\ UNCHANGED <<db, inserted, self_sketch_type, requests>>

\* scores that straddle both clamps of the curve
BalancedScores ==
    [proportion_and_structure    |-> 4,
     line_quality                |-> 18,
     value_and_light             |-> 10,
     detail_and_texture          |-> 10,
     composition_and_perspective |-> 10,
     form_and_volume             |-> 10,
     mood_and_expression         |-> 12,
     overall_realism             |-> 10]

\* scores that straddle the lower clamp only
LowScores ==
    [c \in FullCriteria |-> IF c = "proportion_and_structure" THEN 4 ELSE 8]

\* the score tables the evaluator answers the app with
AppScorePatterns == {ScorePattern(0), BalancedScores, LowScores, TopScores}

\* the scores Analyze Artwork averages, in the order it appends them
analyze_scores(sketch_type, evaluation_data) ==
    <<evaluation_data["proportion_and_structure"].score,
      evaluation_data["line_quality"].score>>
    \o (IF sketch_type = "full realism"
        THEN <<evaluation_data["value_and_light"].score,
               evaluation_data["detail_and_texture"].score,
               evaluation_data["composition_and_perspective"].score>>
        ELSE << >>)
    \o <<evaluation_data["form_and_volume"].score,
         evaluation_data["mood_and_expression"].score>>
    \o (IF sketch_type = "full realism"
        THEN <<evaluation_data["overall_realism"].score>>
        ELSE << >>)

\* mutant: the average curved score is the mean of the curved scores
analysis_display_mean_of_curved(sketch_type, evaluation_data) ==
    LET scores == analyze_scores(sketch_type, evaluation_data)
        curved == [i \in 1..Len(scores) |-> adjust_score_on_curve(Whole(scores[i]))]
    IN  [scores           |-> scores,
         curved_scores    |-> curved,
         avg_score        |-> Frac(sum(scores), Len(scores)),
         curved_avg_score |-> Frac(sum([i \in 1..Len(scores) |-> curved[i].num]),
                                   Len(scores))]

\* the score table Analyze Artwork shows: each criterion's raw and curved
\* score, and the Average Score row
analysis_display(sketch_type, evaluation_data) ==
    LET scores    == analyze_scores(sketch_type, evaluation_data)
        avg_score == Frac(sum(scores), Len(scores))
    IN  [scores           |-> scores,
         curved_scores    |-> [i \in 1..Len(scores) |->
                                 adjust_score_on_curve(Whole(scores[i]))],
         avg_score        |-> avg_score,
         curved_avg_score |-> adjust_score_on_curve(avg_score)]

\* mutant: the insert is made whether or not the storage checkbox is ticked
analyze_external_calls_always_insert(uploaded, answer, checked, stored) ==
    IF ~uploaded THEN <<[op |-> "upload_image", outcome |-> "failed"]>>
    ELSE <<[op |-> "upload_image", outcome |-> "ok"]>>
         \o (IF answer = Raised
             THEN <<[op |-> "responses.create", outcome |-> "raised"]>>
             ELSE IF answer = Unparseable
             THEN <<[op |-> "responses.create", outcome |-> "unparseable"]>>
             ELSE <<[op |-> "responses.create", outcome |-> "parsed"],
                    [op |-> "insert_artwork",
                     outcome |-> IF stored THEN "ok" ELSE "failed"]>>)

\* the external calls one press of Analyze Artwork makes, in order:
\* upload_image; under "if image_data:" client.responses.create; inside the
\* try, after json.loads and the display, insert_artwork under
\* "if store_in_db:"
analyze_external_calls(uploaded, answer, checked, stored) ==
    IF ~uploaded THEN <<[op |-> "upload_image", outcome |-> "failed"]>>
    ELSE <<[op |-> "upload_image", outcome |-> "ok"]>>
         \o (IF answer = Raised
             THEN <<[op |-> "responses.create", outcome |-> "raised"]>>
             ELSE IF answer = Unparseable
             THEN <<[op |-> "responses.create", outcome |-> "unparseable"]>>
             ELSE <<[op |-> "responses.create", outcome |-> "parsed"]>>
                  \o (IF checked
                      THEN <<[op |-> "insert_artwork",
                              outcome |-> IF stored THEN "ok" ELSE "failed"]>>
                      ELSE << >>))

\* the Analyze Artwork button: upload, request, parse, display, and the
\* insert when storing is ticked.  A failed upload shows nothing; the
\* evaluator call is not inside a try, so its exception ends the run; an
\* answer that does not parse shows an error
AnalyzeArtwork ==
    /\ Len(requests) < MaxRequests
    /\ Len(db) < MaxRows
    /\ \E uploaded \in BOOLEAN :
       \E answer \in {Raised, Unparseable}
                     \cup new_evaluations(app_sketch_type, AppScorePatterns) :
       \E checked \in BOOLEAN :
       \E stored \in BOOLEAN :
          LET now == Len(db) + 1
              artwork_data ==
                  [title           |-> answer.generated_title,
                   description     |-> "Standard evaluation v0",
                   image_url       |-> "https://img/1",
                   image_public_id |-> "artwork/1",
                   artist_name     |-> "artist",
                   created_at      |-> now,
                   artwork_date    |-> now,
                   sketch_type     |-> app_sketch_type,
                   question        |-> "Standard evaluation v0",
                   gpt_response    |-> "{...}",
                   evaluation_data |-> answer]
          IN  /\ requests' = IF uploaded
                             THEN Append(requests, app_request(app_sketch_type))
                             ELSE requests
              /\ displayed' = IF ~uploaded THEN None
                              ELSE IF answer \in {Raised, Unparseable} THEN answer
                              ELSE analysis_display(app_sketch_type, answer)
              /\ IF uploaded /\ answer \notin {Raised, Unparseable}
                    /\ checked /\ stored
                 THEN /\ db' = Append(db, Update(insert_row(artwork_data, now),
                                                 [id |-> now]))
                      /\ inserted' = Append(inserted, artwork_data)
                 ELSE UNCHANGED <<db, inserted>>
              /\ store_in_db' = checked
              /\ analyze_calls' =
                    analyze_external_calls(uploaded, answer, checked, stored)
    /\ UNCHANGED <<self_sketch_type, app_sketch_type>>

-----------------------------------------------------------------------------
(* streamlit_app.py: the Previous Analyses tab *)

\* mutant: the full-realism criteria are averaged only when the row names
\* its sketch type
view_scores_quick_default(artwork) ==
    LET evaluation_data == artwork.evaluation_data
        of(cs) == SelectSeq(cs, LAMBDA c : c \in DOMAIN evaluation_data)
        names  == of(<<"proportion_and_structure", "line_quality",
                       "form_and_volume", "mood_and_expression">>)
                  \o (IF Get(artwork, "sketch_type", "quick sketch") = "full realism"
                      THEN of(<<"value_and_light", "detail_and_texture",
                                "composition_and_perspective", "overall_realism">>)
                      ELSE << >>)
    IN  [i \in 1..Len(names) |-> evaluation_data[names[i]].score]

\* the scores Previous Analyses averages for an artwork: the four core
\* criteria that are in evaluation_data, then, for a full realism artwork
\* (the default when the row has no sketch_type), the four others
view_scores(artwork) ==
    LET evaluation_data == artwork.evaluation_data
        of(cs) == SelectSeq(cs, LAMBDA c : c \in DOMAIN evaluation_data)
        names  == of(<<"proportion_and_structure", "line_quality",
                       "form_and_volume", "mood_and_expression">>)
                  \o (IF Get(artwork, "sketch_type", "full realism") = "full realism"
                      THEN of(<<"value_and_light", "detail_and_texture",
                                "composition_and_perspective", "overall_realism">>)
                      ELSE << >>)
    IN  [i \in 1..Len(names) |-> evaluation_data[names[i]].score]

\* filtered_artworks.sort(key=artwork_date or created_at, reverse=True): a
\* stable sort, newest first
RECURSIVE sort_by_artwork_date(_)
sort_by_artwork_date(rows) ==
    IF rows = << >> THEN << >>
    ELSE LET key(r) == Get(r, "artwork_date", Get(r, "created_at", 0))
             i == CHOOSE j \in 1..Len(rows) :
                    \A k \in 1..Len(rows) :
                        \/ key(rows[j]) > key(rows[k])
                        \/ (key(rows[j]) = key(rows[k]) /\ j <= k)
         IN  <<rows[i]>> \o sort_by_artwork_date([k \in 1..(Len(rows) - 1) |->
                                                    IF k < i THEN rows[k]
                                                    ELSE rows[k + 1]])

\* one point of the score plot
plot_point(artwork) ==
    LET scores    == view_scores(artwork)
        avg_score == Frac(sum(scores), Len(scores))
    IN  [id           |-> artwork.id,
         raw_score    |-> avg_score,
         curved_score |-> adjust_score_on_curve(avg_score),
         sketch_type  |-> Get(artwork, "sketch_type", "full realism")]

\* one entry of the list: the scores averaged and, when there are any, the
\* curved average of the expander header
list_entry(artwork) ==
    LET scores == IF "evaluation_data" \in DOMAIN artwork
                  THEN view_scores(artwork) ELSE << >>
    IN  IF scores # << >>
        THEN [id               |-> artwork.id,
              scores           |-> scores,
              avg_score        |-> Frac(sum(scores), Len(scores)),
              curved_avg_score |-> adjust_score_on_curve(Frac(sum(scores),
                                                              Len(scores)))]
        ELSE [id |-> artwork.id, scores |-> scores]

\* the Previous Analyses tab is rendered: the artworks are fetched, filtered
\* by artist, sorted, plotted and listed
PreviousAnalyses ==
    /\ \E ok \in BOOLEAN :
       \E selected_artist \in {"All Artists", "artist"} :
          LET result   == IF ok
                          THEN LET data == order_desc(db)
                               IN  [data |-> [i \in 1..Len(data) |->
                                                structure_artwork(data[i])]]
                          ELSE None
              filtered == IF result = None \/ result.data = << >> THEN << >>
                          ELSE sort_by_artwork_date(
                                 IF selected_artist = "All Artists"
                                 THEN result.data
                                 ELSE SelectSeq(result.data,
                                        LAMBDA a : Get(a, "artist_name", "")
                                                     = selected_artist))
              plotted  == SelectSeq(filtered,
                            LAMBDA a : /\ "evaluation_data" \in DOMAIN a
                                       /\ "created_at" \in DOMAIN a
                                       /\ view_scores(a) # << >>)
          IN  /\ plot_data' = [i \in 1..Len(plotted) |-> plot_point(plotted[i])]
              /\ listing' = [i \in 1..Len(filtered) |-> list_entry(filtered[i])]
    /\ UNCHANGED <<db, inserted, fetched, displayed>>

-----------------------------------------------------------------------------
(* A datastore holding rows of any revision of the app *)

\* the criterion columns of a stored row: the score column of each criterion
\* of cs, with its rationale and tips columns when complete
stored_columns(cs, complete, pattern) ==
    LET RECURSIVE Cols(_)
        Cols(S) ==
            IF S = {} THEN EmptyDict
            ELSE LET c == CHOOSE x \in S : TRUE
                     p == ReadPrefix[c]
                 IN  Update(Cols(S \ {c}),
                            IF complete
                            THEN (p \o "_score"     :> pattern[c])
                              @@ (p \o "_rationale" :> "about " \o c)
                              @@ (p \o "_tips"      :> << <<"t", "i", "p">> >>)
                            ELSE (p \o "_score" :> pattern[c]))
    IN  Cols(cs)

\* the criteria whose columns a stored row can hold: the original two, the
\* rubrics, none, and a row without the proportion columns
StoredCriteriaSets ==
    {{"proportion_and_structure", "line_quality"},
     QuickCriteria, FullCriteria, {},
     {"line_quality", "form_and_volume"}}

\* stored rows, with and without a sketch_type column; a quick sketch row
\* holds no full-realism column
StoredRows ==
    LET base == [id              |-> 1,
                 title           |-> "title",
                 artist_name     |-> "artist",
                 created_at      |-> 1,
                 artwork_date    |-> 1,
                 image_url       |-> "https://img/1",
                 image_public_id |-> "artwork/1"]
        rows(sets) == {Update(base, stored_columns(cs, complete, pattern)) :
                          cs \in sets, complete \in BOOLEAN,
                          pattern \in {ScorePattern(0), TopScores}}
    IN  rows(StoredCriteriaSets)
        \cup {Update(r, [sketch_type |-> "full realism"]) : r \in rows(StoredCriteriaSets)}
        \cup {Update(r, [sketch_type |-> "quick sketch"]) :
                 r \in rows({cs \in StoredCriteriaSets : cs \subseteq QuickCriteria})}

StoredInit ==
    /\ \E row \in StoredRows : db = <<row>>
    /\ inserted = << >>
    /\ fetched = None
    /\ limit = DefaultLimit
    /\ self_sketch_type \in SketchTypes
    /\ batch_pc = "start"
    /\ queried = << >>
    /\ artworks = << >>
    /\ idx = 0
    /\ calls = << >>
    /\ results = << >>
    /\ flattened_results = << >>
    /\ csv_columns = << >>
    /\ csv_pc = "idle"
    /\ attempts = << >>
    /\ log = << >>

-----------------------------------------------------------------------------
(* update_database_from_csv.py: parse_tips, and the tips cell save_to_csv
   writes *)

RECURSIVE split(_, _)
\* s.split(sep) for a one-character sep: the pieces between the separators
split(s, sep) ==
    IF \A i \in 1..Len(s) : s[i] # sep THEN <<s>>
    ELSE LET i == CHOOSE j \in 1..Len(s) :
                     s[j] = sep /\ \A k \in 1..(j - 1) : s[k] # sep
         IN  <<SubSeq(s, 1, i - 1)>> \o split(SubSeq(s, i + 1, Len(s)), sep)

RECURSIVE strip(_)
\* s.strip(): s without its leading and trailing whitespace
strip(s) ==
    IF s = << >> THEN s
    ELSE IF Head(s) = " " THEN strip(Tail(s))
    ELSE IF s[Len(s)] = " " THEN strip(SubSeq(s, 1, Len(s) - 1))
    ELSE s

\* "; ".join(tips) if tips else ""
tips_cell(tip_list) == IF tip_list = << >> THEN << >> ELSE join(<<";", " ">>, tip_list)

\* parse_tips(tips_string): split on ';', strip each piece, drop the empty
\* pieces, then take one trailing '.' off each piece kept
parse_tips(string) ==
    IF string = << >> THEN << >>
    ELSE LET pieces   == split(string, ";")
             stripped == [i \in 1..Len(pieces) |-> strip(pieces[i])]
             kept     == SelectSeq(stripped, LAMBDA tip : tip # << >>)
         IN  [i \in 1..Len(kept) |->
                IF kept[i][Len(kept[i])] = "."
                THEN SubSeq(kept[i], 1, Len(kept[i]) - 1)
                ELSE kept[i]]

MaxTips   == 2
MaxTipLen == 2

\* the characters of the strings tried: a letter, the period parse_tips
\* strips, the separator and the blank
TipChars == {"a", ".", ";", " "}

\* strings of at most n characters
Strings(n) == UNION {[1..k -> TipChars] : k \in 0..n}

\* improvement_tips lists: any strings the evaluator may have put there
TipsInit ==
    /\ new_tips \in UNION {[1..k -> Strings(MaxTipLen)] : k \in 0..MaxTips}
    /\ tips_string = << >>
    /\ parsed_tips = << >>
    /\ tips_pc = "start"

\* save_to_csv writes the tips of a criterion into their cell
WriteTipsCell ==
    /\ tips_pc = "start"
    /\ tips_string' = tips_cell(new_tips)
    /\ tips_pc' = "written"
    /\ UNCHANGED <<new_tips, parsed_tips>>

\* update_artwork_from_csv reads the cell and parses it
ParseTipsCell ==
    /\ tips_pc = "written"
    /\ parsed_tips' = parse_tips(tips_string)
    /\ tips_pc' = "parsed"
    /\ UNCHANGED <<new_tips, tips_string>>

-----------------------------------------------------------------------------
(* update_database_from_csv.py: update_artwork_from_csv *)

Digits == <<"0", "1", "2", "3", "4", "5", "6", "7", "8", "9">>

DigitValue(ch) == (CHOOSE i \in 1..10 : Digits[i] = ch) - 1

RECURSIVE number(_)
\* the value of a string of decimal digits
number(ds) ==
    IF ds = << >> THEN 0
    ELSE 10 * number(SubSeq(ds, 1, Len(ds) - 1)) + DigitValue(ds[Len(ds)])

\* the text of a row id, as the CSV holds it
id_text(n) == <<Digits[n + 1]>>

\* int(float(cell)) for a cell of digits and periods: the digits before the
\* period, a ValueError for the empty cell and for text float() rejects
int_float(cell) ==
    LET dots   == {i \in 1..Len(cell) : cell[i] = "."}
        others == {i \in 1..Len(cell) :
                     cell[i] # "." /\ \A d \in 1..10 : Digits[d] # cell[i]}
    IN  IF cell = << >> \/ others # {} \/ Cardinality(dots) > 1 \/ cell = <<".">>
        THEN [ok |-> FALSE]
        ELSE IF dots = {} THEN [ok |-> TRUE, value |-> number(cell)]
        ELSE LET dot == CHOOSE i \in dots : TRUE
             IN  [ok |-> TRUE, value |-> number(SubSeq(cell, 1, dot - 1))]

\* the criteria in the order update_artwork_from_csv goes through them
UpdateCriteria ==
    <<"proportion_and_structure", "line_quality", "form_and_volume",
      "mood_and_expression", "value_and_light", "detail_and_texture",
      "composition_and_perspective", "overall_realism">>

\* mutant: form and volume written to the mood and expression columns
UpdatePrefix_swapped ==
    [proportion_and_structure    |-> "proportion",
     line_quality                |-> "line_quality",
     form_and_volume             |-> "mood_expression",
     mood_and_expression         |-> "form_volume",
     value_and_light             |-> "value_light",
     detail_and_texture          |-> "detail_texture",
     composition_and_perspective |-> "composition_perspective",
     overall_realism             |-> "overall_realism"]

\* the column prefix update_artwork_from_csv writes each criterion under
UpdatePrefix ==
    [proportion_and_structure    |-> "proportion",
     line_quality                |-> "line_quality",
     form_and_volume             |-> "form_volume",
     mood_and_expression         |-> "mood_expression",
     value_and_light             |-> "value_light",
     detail_and_texture          |-> "detail_texture",
     composition_and_perspective |-> "composition_perspective",
     overall_realism             |-> "overall_realism"]

\* the criteria whose new score column the CSV has
update_criteria(row) ==
    SelectSeq(UpdateCriteria, LAMBDA c : ("new_" \o c \o "_score") \in DOMAIN row)

RECURSIVE criteria_update(_, _)
\* the three columns of each criterion of cs, from the row's new_ cells
criteria_update(row, cs) ==
    IF cs = << >> THEN EmptyDict
    ELSE LET c == Head(cs)
             p == UpdatePrefix[c]
         IN  Update((p \o "_score"     :> int_float(row["new_" \o c \o "_score"]).value)
                    @@ (p \o "_rationale" :> Get(row, "new_" \o c \o "_rationale", ""))
                    @@ (p \o "_tips"      :>
                           parse_tips(Get(row, "new_" \o c \o "_tips", << >>))),
                    criteria_update(row, Tail(cs)))

\* mutant: the metadata the source leaves commented out is written too
update_data_with_metadata(row) ==
    Update([title       |-> Get(row, "generated_title", ""),
            description |-> "o3 re-eval",
            artist_name |-> Get(row, "artist_name", ""),
            image_url   |-> Get(row, "image_url", "")],
           criteria_update(row, update_criteria(row)))

\* update_data of one CSV row; a score cell int(float()) rejects raises
\* ValueError
update_data(row) ==
    IF \E i \in 1..Len(update_criteria(row)) :
          ~int_float(row["new_" \o update_criteria(row)[i] \o "_score"]).ok
    THEN Raised
    ELSE Update([title       |-> Get(row, "generated_title", ""),
                 description |-> "o3 re-eval"],
                criteria_update(row, update_criteria(row)))

\* table("artworks").update(update_data).eq("id", artwork_id): the rows with
\* that id take the columns of update_data
updated_rows(rows, artwork_id, data) ==
    [i \in 1..Len(rows) |->
        IF id_text(rows[i].id) = artwork_id THEN Update(rows[i], data) ELSE rows[i]]

\* the rows the update returns in result.data
matched_rows(rows, artwork_id) ==
    SelectSeq(rows, LAMBDA r : id_text(r.id) = artwork_id)

MaxCsvRows == 2

\* score cells: a whole number, the float pandas writes in a column with gaps,
\* and the empty cell
ScoreCells == {<<"1", "5">>, <<"7", ".", "0">>, << >>}

\* the new score of a criterion as a filled cell holds it: "11" to "18", in
\* the order of UpdateCriteria
new_score_cell(c) ==
    <<"1", Digits[1 + CHOOSE i \in 1..Len(UpdateCriteria) : UpdateCriteria[i] = c]>>

\* the cells of one CSV row under a header of the given criteria: every row
\* of a file has every column of the header
csv_row(header, artwork_id, first_cell) ==
    [id              |-> artwork_id,
     title           |-> "title",
     artist_name     |-> "another artist",
     created_at      |-> "created",
     sketch_type     |-> "full realism",
     generated_title |-> "new title",
     image_url       |-> "https://img/2"]
    @@ [col \in {"new_proportion_and_structure_score" : c \in header} |-> first_cell]
    @@ [col \in {"new_" \o c \o "_score" : c \in header} |->
           LET c == CHOOSE x \in header : col = "new_" \o x \o "_score"
           IN  new_score_cell(c)]
    @@ [col \in {"new_" \o c \o "_rationale" : c \in header} |-> "new rationale"]
    @@ [col \in {"new_" \o c \o "_tips" : c \in header} |->
           <<"a", ".", ";", " ", "b">>]

CsvRowInputs(header) ==
    {csv_row(header, artwork_id, first_cell) :
        artwork_id \in {<< >>, id_text(1), id_text(2)},
        first_cell \in ScoreCells}

\* update_artwork_from_csv is called on a file, the datastore holding rows
\* the app inserted
UpdateInit ==
    /\ \E n \in 1..MaxRows :
          /\ inserted = [k \in 1..n |-> stored_artwork_data(k)]
          /\ db = [k \in 1..n |-> Update(insert_row(stored_artwork_data(k), k),
                                         [id |-> k])]
    /\ fetched = None
    /\ \E header \in {{}, QuickCriteria, FullCriteria} :
          csv_rows \in UNION {[1..n -> CsvRowInputs(header)] : n \in 0..MaxCsvRows}
    /\ update_pc = "start"
    /\ row_idx = 0
    /\ update_calls = << >>
    /\ updated_count = 0
    /\ update_log = << >>

\* up to the loop: without a datastore client the function returns; a file
\* that cannot be opened is reported by the outer except
UpdateStart ==
    /\ update_pc = "start"
    /\ \E supabase \in BOOLEAN :
       \E opened \in BOOLEAN :
          IF ~supabase
          THEN /\ update_pc' = "returned"
               /\ update_log' = Append(update_log, "Error: Missing Supabase credentials")
               /\ row_idx' = row_idx
          ELSE IF ~opened
          THEN /\ update_pc' = "returned"
               /\ update_log' = Append(update_log, "Error processing CSV file")
               /\ row_idx' = row_idx
          ELSE /\ update_pc' = "rows"
               /\ update_log' = update_log
               /\ row_idx' = 1
    /\ UNCHANGED <<db, inserted, fetched, csv_rows, update_calls, updated_count>>

\* one iteration of "for row in reader": a row without id is skipped; the
\* update_data is built, a ValueError in it going to the outer except, which
\* reports it and returns; the update is sent and its outcome reported
UpdateRow ==
    /\ update_pc = "rows"
    /\ row_idx <= Len(csv_rows)
    /\ LET row        == csv_rows[row_idx]
           artwork_id == Get(row, "id", << >>)
       IN  IF artwork_id = << >>
           THEN /\ update_log' = Append(update_log, "Warning: Row missing ID, skipping")
                /\ row_idx' = row_idx + 1
                /\ UNCHANGED <<db, update_calls, updated_count, update_pc>>
           ELSE IF update_data(row) = Raised
           THEN /\ update_log' = Append(update_log, "Error processing CSV file")
                /\ update_pc' = "returned"
                /\ UNCHANGED <<db, update_calls, updated_count, row_idx>>
           ELSE \E raises \in BOOLEAN :
                   LET outcome == IF raises THEN "raised"
                                  ELSE IF matched_rows(db, artwork_id) # << >>
                                  THEN "updated" ELSE "no record"
                   IN  /\ update_calls' =
                             Append(update_calls,
                                    [row         |-> row_idx,
                                     id          |-> artwork_id,
                                     update_data |-> update_data(row),
                                     outcome     |-> outcome])
                       /\ db' = IF raises THEN db
                                ELSE updated_rows(db, artwork_id, update_data(row))
                       /\ updated_count' = IF outcome = "updated"
                                           THEN updated_count + 1 ELSE updated_count
                       /\ update_log' =
                             Append(update_log,
                                    CASE outcome = "updated" -> "Updated artwork"
                                      [] outcome = "no record" -> "Failed to update artwork"
                                      [] outcome = "raised" -> "Error updating artwork")
                       /\ row_idx' = row_idx + 1
                       /\ update_pc' = update_pc
    /\ UNCHANGED <<inserted, fetched, csv_rows>>

\* after the last row: the summary
UpdateEnd ==
    /\ update_pc = "rows"
    /\ row_idx > Len(csv_rows)
    /\ update_pc' = "returned"
    /\ update_log' = Append(update_log, "Summary: Updated updated_count artwork records")
    /\ UNCHANGED <<db, inserted, fetched, csv_rows, row_idx, update_calls,
                   updated_count>>

-----------------------------------------------------------------------------
(* Specifications *)

CurveIdle == raw_scores = << >> /\ curved_scores = << >>
DbIdle    == db = << >> /\ inserted = << >> /\ fetched = None
BatchIdle ==
    /\ limit = DefaultLimit
    /\ batch_pc = "idle"
    /\ queried = << >>
    /\ artworks = << >>
    /\ idx = 0
    /\ calls = << >>
ViewIdle  == displayed = None /\ plot_data = << >> /\ listing = << >>
PressIdle == store_in_db = TRUE /\ analyze_calls = << >>
MainIdle  == main_pc = "idle"
UpdateIdle ==
    /\ csv_rows = << >>
    /\ update_pc = "idle"
    /\ row_idx = 0
    /\ update_calls = << >>
    /\ updated_count = 0
    /\ update_log = << >>
TipsIdle  ==
    /\ new_tips = << >> /\ tips_string = << >> /\ parsed_tips = << >>
    /\ tips_pc = "idle"
EvalIdle  == app_sketch_type = "full realism" /\ requests = << >>
CsvOutputIdle ==
    /\ results = << >>
    /\ flattened_results = << >>
    /\ csv_columns = << >>
    /\ csv_pc = "idle"
    /\ attempts = << >>
    /\ log = << >>
CsvIdle   ==
    /\ self_sketch_type = "full realism"
    /\ results = << >>
    /\ flattened_results = << >>
    /\ csv_columns = << >>
    /\ csv_pc = "idle"
    /\ attempts = << >>
    /\ log = << >>

\* the score curve on its own
SpecCurveInit == CurveInit /\ DbIdle /\ CsvIdle /\ BatchIdle /\ EvalIdle /\ ViewIdle /\ PressIdle /\ MainIdle /\ UpdateIdle /\ TipsIdle
SpecCurveNext == CurveScores /\ UNCHANGED <<pressVars, mainVars, updateVars, tipsVars, dbVars, csvVars, batchVars, evalVars, viewVars>>
SpecCurve == SpecCurveInit /\ [][SpecCurveNext]_vars

\* the persistence mapping against the datastore
SpecDbInit == DbInit /\ CurveIdle /\ CsvIdle /\ BatchIdle /\ EvalIdle /\ ViewIdle /\ PressIdle /\ MainIdle /\ UpdateIdle /\ TipsIdle
SpecDbNext ==
    \/ InsertArtwork /\ UNCHANGED <<pressVars, mainVars, updateVars, tipsVars, curveVars, csvVars, batchVars, evalVars, viewVars>>
    \/ GetAllArtworks /\ UNCHANGED <<pressVars, mainVars, updateVars, tipsVars, curveVars, csvVars, batchVars, evalVars, viewVars>>
    \/ GetArtworkById /\ UNCHANGED <<pressVars, mainVars, updateVars, tipsVars, curveVars, csvVars, batchVars, evalVars, viewVars>>
SpecDb == SpecDbInit /\ [][SpecDbNext]_vars

\* one call of save_to_csv
SpecCsvInit == CsvInit /\ CurveIdle /\ DbIdle /\ BatchIdle /\ EvalIdle /\ ViewIdle /\ PressIdle /\ MainIdle /\ UpdateIdle /\ TipsIdle
SpecCsvNext ==
    \/ SaveToCsvFlatten /\ UNCHANGED <<pressVars, mainVars, updateVars, tipsVars, curveVars, dbVars, batchVars, evalVars, viewVars>>
    \/ SaveToCsvWrite /\ UNCHANGED <<pressVars, mainVars, updateVars, tipsVars, curveVars, dbVars, batchVars, evalVars, viewVars>>
SpecCsv == SpecCsvInit /\ [][SpecCsvNext]_vars

\* run_evaluation: evaluate_all_images over the datastore, then save_to_csv
SpecBatchInit == BatchInit /\ CurveIdle /\ EvalIdle /\ ViewIdle /\ PressIdle /\ MainIdle /\ UpdateIdle /\ TipsIdle
SpecBatchNext ==
    \/ EvaluateAllImagesStart /\ UNCHANGED <<pressVars, mainVars, updateVars, tipsVars, curveVars, dbVars, viewVars>>
    \/ EvaluateNextImage /\ UNCHANGED <<pressVars, mainVars, updateVars, tipsVars, curveVars, dbVars, viewVars>>
    \/ Sleep /\ UNCHANGED <<pressVars, mainVars, updateVars, tipsVars, curveVars, dbVars, viewVars>>
    \/ SaveToCsvFlatten /\ UNCHANGED <<pressVars, mainVars, updateVars, tipsVars, curveVars, dbVars, batchVars, evalVars, viewVars>>
    \/ SaveToCsvWrite /\ UNCHANGED <<pressVars, mainVars, updateVars, tipsVars, curveVars, dbVars, batchVars, evalVars, viewVars>>
SpecBatch == SpecBatchInit /\ [][SpecBatchNext]_vars

\* the app and an ArtworkEvaluator sending requests to the evaluator
SpecEvaluatorInit ==
    /\ EvaluatorInit
    /\ db = << >> /\ inserted = << >> /\ fetched = None
    /\ CurveIdle /\ CsvOutputIdle /\ BatchIdle /\ ViewIdle /\ PressIdle /\ MainIdle /\ UpdateIdle /\ TipsIdle
SpecEvaluatorNext ==
    \/ SetSketchType /\ UNCHANGED <<pressVars, mainVars, updateVars, tipsVars, curveVars, fetched, batchVars, viewVars, results,
                                    flattened_results, csv_columns, csv_pc,
                                    attempts, log>>
    \/ EvaluateImage /\ UNCHANGED <<pressVars, mainVars, updateVars, tipsVars, curveVars, fetched, batchVars, viewVars, results,
                                    flattened_results, csv_columns, csv_pc,
                                    attempts, log>>
    \/ SelectSketchType /\ UNCHANGED <<pressVars, mainVars, updateVars, tipsVars, curveVars, fetched, batchVars, viewVars, results,
                                       flattened_results, csv_columns, csv_pc,
                                       attempts, log>>
    \/ AnalyzeArtwork /\ UNCHANGED <<mainVars, updateVars, tipsVars, curveVars, fetched, batchVars, plot_data, listing, results,
                                     flattened_results, csv_columns, csv_pc,
                                     attempts, log>>
    \/ PreviousAnalyses /\ UNCHANGED <<pressVars, mainVars, updateVars, tipsVars, curveVars, csvVars, batchVars, evalVars>>
SpecEvaluator == SpecEvaluatorInit /\ [][SpecEvaluatorNext]_vars

\* the app's Previous Analyses tab, the datastore reads and a batch run over
\* a stored row of any revision
SpecStoredInit == StoredInit /\ CurveIdle /\ EvalIdle /\ ViewIdle /\ PressIdle /\ MainIdle /\ UpdateIdle /\ TipsIdle
SpecStoredNext ==
    \/ PreviousAnalyses /\ UNCHANGED <<pressVars, mainVars, updateVars, tipsVars, curveVars, csvVars, batchVars, evalVars>>
    \/ GetAllArtworks /\ UNCHANGED <<pressVars, mainVars, updateVars, tipsVars, curveVars, csvVars, batchVars, evalVars, viewVars>>
    \/ GetArtworkById /\ UNCHANGED <<pressVars, mainVars, updateVars, tipsVars, curveVars, csvVars, batchVars, evalVars, viewVars>>
    \/ EvaluateAllImagesStart /\ UNCHANGED <<pressVars, mainVars, updateVars, tipsVars, curveVars, dbVars, viewVars>>
    \/ EvaluateNextImage /\ UNCHANGED <<pressVars, mainVars, updateVars, tipsVars, curveVars, dbVars, viewVars>>
    \/ Sleep /\ UNCHANGED <<pressVars, mainVars, updateVars, tipsVars, curveVars, dbVars, viewVars>>
    \/ SaveToCsvFlatten /\ UNCHANGED <<pressVars, mainVars, updateVars, tipsVars, curveVars, dbVars, batchVars, evalVars, viewVars>>
    \/ SaveToCsvWrite /\ UNCHANGED <<pressVars, mainVars, updateVars, tipsVars, curveVars, dbVars, batchVars, evalVars, viewVars>>
SpecStored == SpecStoredInit /\ [][SpecStoredNext]_vars

\* the batch script run from its entry point
SpecMainInit == MainInit /\ CurveIdle /\ EvalIdle /\ ViewIdle /\ PressIdle /\ UpdateIdle /\ TipsIdle
SpecMainNext ==
    \/ MainStart /\ UNCHANGED <<pressVars, updateVars, tipsVars, curveVars, dbVars, viewVars>>
    \/ EvaluateAllImagesStart /\ UNCHANGED <<pressVars, mainVars, updateVars, tipsVars, curveVars, dbVars, viewVars>>
    \/ EvaluateNextImage /\ UNCHANGED <<pressVars, mainVars, updateVars, tipsVars, curveVars, dbVars, viewVars>>
    \/ Sleep /\ UNCHANGED <<pressVars, mainVars, updateVars, tipsVars, curveVars, dbVars, viewVars>>
    \/ SaveToCsvFlatten /\ UNCHANGED <<pressVars, mainVars, updateVars, tipsVars, curveVars, dbVars, batchVars, evalVars, viewVars>>
    \/ SaveToCsvWrite /\ UNCHANGED <<pressVars, mainVars, updateVars, tipsVars, curveVars, dbVars, batchVars, evalVars, viewVars>>
    \/ MainEnd /\ UNCHANGED <<pressVars, updateVars, tipsVars, curveVars, dbVars, viewVars>>
SpecMain == SpecMainInit /\ [][SpecMainNext]_vars

\* a list of tips written to its CSV cell by save_to_csv and parsed back by
\* parse_tips
SpecTipsInit ==
    /\ TipsInit
    /\ CurveIdle /\ DbIdle /\ CsvIdle /\ BatchIdle /\ EvalIdle /\ ViewIdle
    /\ PressIdle /\ MainIdle /\ UpdateIdle
SpecTipsNext ==
    \/ WriteTipsCell /\ UNCHANGED <<pressVars, mainVars, updateVars, curveVars, dbVars, csvVars, batchVars, evalVars, viewVars>>
    \/ ParseTipsCell /\ UNCHANGED <<pressVars, mainVars, updateVars, curveVars, dbVars, csvVars, batchVars, evalVars, viewVars>>
SpecTips == SpecTipsInit /\ [][SpecTipsNext]_vars

\* update_artwork_from_csv run on a CSV file over the rows the app stored
SpecUpdateInit ==
    /\ UpdateInit
    /\ CurveIdle /\ CsvIdle /\ BatchIdle /\ EvalIdle /\ ViewIdle
    /\ PressIdle /\ MainIdle /\ TipsIdle
SpecUpdateNext ==
    \/ UpdateStart /\ UNCHANGED <<pressVars, mainVars, tipsVars, curveVars, csvVars, batchVars, evalVars, viewVars>>
    \/ UpdateRow /\ UNCHANGED <<pressVars, mainVars, tipsVars, curveVars, csvVars, batchVars, evalVars, viewVars>>
    \/ UpdateEnd /\ UNCHANGED <<pressVars, mainVars, tipsVars, curveVars, csvVars, batchVars, evalVars, viewVars>>
SpecUpdate == SpecUpdateInit /\ [][SpecUpdateNext]_vars

-----------------------------------------------------------------------------
(* Claims *)

\* every field of every criterion of an evaluation record is there
CompleteRecord(evaluation_data) ==
    \A c \in DOMAIN evaluation_data :
        DOMAIN evaluation_data[c] = {"score", "rationale", "improvement_tips"}

\* the fetched artworks that were un-flattened
StructuredFetched ==
    IF fetched = None THEN {}
    ELSE {fetched.data[i] : i \in {j \in 1..Len(fetched.data) :
                                     "evaluation_data" \in DOMAIN fetched.data[j]}}

\* C1 (as claimed): round-trip law.  For every evaluation record whose
\* criteria are a subset of the criteria of its mode's rubric, flattening it
\* with insert_artwork and un-flattening the stored row with get_all_artworks
\* or get_artwork_by_id gives back an equal evaluation mapping.
C1_RoundTripSubset ==
    \A a \in StructuredFetched :
        LET orig == inserted[a.id]
        IN  (/\ DOMAIN orig.evaluation_data \subseteq Rubric(validated_sketch_type(orig))
             /\ CompleteRecord(orig.evaluation_data))
            => a.evaluation_data = orig.evaluation_data

\* C1 (amended): the round-trip law holds for every evaluation record that
\* holds exactly the criteria of its mode's rubric, each with score,
\* rationale and improvement_tips (the datastore returning the columns that
\* were inserted).
C1_RoundTripExact ==
    \A a \in StructuredFetched :
        LET orig == inserted[a.id]
        IN  (/\ DOMAIN orig.evaluation_data = Rubric(validated_sketch_type(orig))
             /\ CompleteRecord(orig.evaluation_data))
            => a.evaluation_data = orig.evaluation_data

\* C1 witness: a complete quick-sketch record was inserted, read back and
\* came back equal
C1_Witness ==
    \E a \in StructuredFetched :
        LET orig == inserted[a.id]
        IN  /\ validated_sketch_type(orig) = "quick sketch"
            /\ DOMAIN orig.evaluation_data = QuickCriteria
            /\ CompleteRecord(orig.evaluation_data)
            /\ a.evaluation_data = orig.evaluation_data

\* C2: for all integer scores s in 1..20 the curved score is an integer in
\* 0..10, and for s <= t the curved score of s is at most that of t.
C2_CurveBoundedMonotone ==
    curved_scores # << >> =>
        /\ \A i \in 1..Len(curved_scores) :
              /\ curved_scores[i].den = 1
              /\ curved_scores[i].num \in 0..10
        /\ raw_scores[1] <= raw_scores[2]
              => FracLeq(curved_scores[1], curved_scores[2])

\* C2 witness: a score below the clamp and one above the cap were curved
C2_Witness ==
    /\ raw_scores = <<5, 17>>
    /\ curved_scores = <<Whole(0), Whole(10)>>

\* the criteria an evaluation scores
Scored(evaluation) == (DOMAIN evaluation) \ {"generated_title"}

RECURSIVE ScoreTotal(_, _)
ScoreTotal(evaluation, cs) ==
    IF cs = {} THEN 0
    ELSE LET c == CHOOSE x \in cs : TRUE
         IN  evaluation[c].score + ScoreTotal(evaluation, cs \ {c})

\* the arithmetic mean of the scores of an evaluation
Mean(evaluation) ==
    Frac(ScoreTotal(evaluation, Scored(evaluation)), Cardinality(Scored(evaluation)))

Flattened == {i \in 1..Len(flattened_results) : TRUE}

\* C3 (as claimed): the batch export curves an average with the same curve
\* as the app: existing_average_curved_score and new_average_curved_score
\* equal adjust_score_on_curve of the corresponding raw average.
C3_ExportUsesAppCurve ==
    \A i \in Flattened :
        LET f == flattened_results[i].d
        IN  /\ "existing_average_raw_score" \in DOMAIN f =>
                  FracEq(f["existing_average_curved_score"],
                         adjust_score_on_curve(f["existing_average_raw_score"]))
            /\ "new_average_raw_score" \in DOMAIN f =>
                  FracEq(f["new_average_curved_score"],
                         adjust_score_on_curve(f["new_average_raw_score"]))

\* C4 (as claimed): a {criterion}_score_diff column is emitted only when
\* both the new and the existing evaluation contain that criterion, and
\* its value is that criterion's new score minus its existing score.
C4_DiffOnlyWhenBothPresent ==
    \A i \in Flattened :
        LET f        == flattened_results[i].d
            new      == results[i].new_evaluation
            existing == results[i].evaluation_data
        IN  \A c \in FullCriteria :
                (c \o "_score_diff") \in DOMAIN f =>
                    /\ c \in DOMAIN new
                    /\ c \in DOMAIN existing
                    /\ f[c \o "_score_diff"] = new[c].score - existing[c].score

\* the case of C5: both evaluations score the same criteria, in 1..20
SameCriteriaScored(result) ==
    LET new      == result.new_evaluation
        existing == result.evaluation_data
    IN  /\ Scored(new) = Scored(existing)
        /\ \A c \in Scored(new) :
              /\ new[c].score \in MinScore..MaxScore
              /\ existing[c].score \in MinScore..MaxScore

\* C5: when the existing and the new evaluation of an artwork score the
\* same criteria with scores in 1..20, every such criterion gets
\* score_diff = new score - existing score, and average_score_diff is the
\* mean of the new scores minus the mean of the existing scores.
C5_DiffsOfSameCriteria ==
    \A i \in Flattened :
        LET f        == flattened_results[i].d
            new      == results[i].new_evaluation
            existing == results[i].evaluation_data
        IN  SameCriteriaScored(results[i]) =>
                /\ \A c \in Scored(new) :
                      /\ (c \o "_score_diff") \in DOMAIN f
                      /\ f[c \o "_score_diff"] = new[c].score - existing[c].score
                /\ "average_score_diff" \in DOMAIN f
                /\ FracEq(f["average_score_diff"],
                          FracSub(Mean(new), Mean(existing)))

\* C5 witness: existing 10 and 12, new 14 and 16 for the first two
\* criteria; the diffs are 4 and 4 and the average diff is 4
C5_Witness ==
    \E i \in Flattened :
        LET f        == flattened_results[i].d
            new      == results[i].new_evaluation
            existing == results[i].evaluation_data
        IN  /\ SameCriteriaScored(results[i])
            /\ existing["proportion_and_structure"].score = 10
            /\ existing["line_quality"].score = 12
            /\ new["proportion_and_structure"].score = 14
            /\ new["line_quality"].score = 16
            /\ f["proportion_and_structure_score_diff"] = 4
            /\ f["line_quality_score_diff"] = 4
            /\ FracEq(f["average_score_diff"], Whole(4))

WriteTargets == <<"original", "timestamped", "home">>

Failed(i) == attempts[i].outcome # "ok"

\* C8: after a permission error on the configured path the write targets
\* are tried in the order original, timestamped, home; a later target is
\* tried only after every earlier one failed; the call returns at the first
\* success, and the fallback is logged.
C8_PermissionFallbackOrder ==
    (Len(attempts) >= 1 /\ attempts[1].outcome = "PermissionError") =>
        /\ Len(attempts) <= 3
        /\ \A i \in 1..Len(attempts) : attempts[i].target = WriteTargets[i]
        /\ \A i \in 1..(Len(attempts) - 1) : Failed(i)
        /\ ~Failed(Len(attempts)) => csv_pc = "returned"
        /\ (Failed(Len(attempts)) /\ Len(attempts) < 3) =>
              csv_pc = "write_" \o WriteTargets[Len(attempts) + 1]
        /\ (Len(attempts) = 2 /\ ~Failed(2)) =>
              log[Len(log)] =
                "Original file was inaccessible. Results saved to new_filename instead."
        /\ (Len(attempts) = 3 /\ ~Failed(3)) =>
              /\ log[Len(log)] = "Results saved to last_resort_file"
              /\ log[Len(log) - 1] = "Error saving CSV"

\* C8 witness: the original write hit a permission error, the timestamped
\* one succeeded, the call returned and logged the fallback
C8_Witness ==
    /\ Len(attempts) = 2
    /\ attempts[1] = [target |-> "original", outcome |-> "PermissionError"]
    /\ attempts[2] = [target |-> "timestamped", outcome |-> "ok"]
    /\ csv_pc = "returned"
    /\ log[Len(log)] =
          "Original file was inaccessible. Results saved to new_filename instead."

\* C9 (as claimed): any failure of the write to the configured path, not
\* only a permission failure, goes on to the timestamped path, and
\* save_to_csv never raises.
C9_AnyFailureFallsBack ==
    /\ csv_pc # "raised"
    /\ (csv_pc = "returned" /\ Len(attempts) >= 1 /\ Failed(1)) =>
          /\ Len(attempts) >= 2
          /\ attempts[2].target = "timestamped"

\* C9 (amended): a permission failure on the configured path goes through
\* the chain original, timestamped, home; any other failure of the first
\* write is only logged and nothing else is tried; and no failed write
\* makes save_to_csv raise: after any failures, all three included, the
\* failure is logged and the call returns normally.
C9_FailuresOnlyLogged ==
    /\ csv_pc # "raised"
    /\ (Len(attempts) >= 1 /\ attempts[1].outcome = "PermissionError") =>
          \A i \in 1..Len(attempts) : attempts[i].target = WriteTargets[i]
    /\ (Len(attempts) >= 1 /\ attempts[1].outcome \notin {"ok", "PermissionError"}) =>
          /\ Len(attempts) = 1
          /\ csv_pc = "returned"
          /\ log[Len(log)] = "Error saving CSV"
    /\ (Len(attempts) = 3 /\ Failed(3)) =>
          /\ csv_pc = "returned"
          /\ log[Len(log)] = "Failed to save results"
    /\ (Len(attempts) >= 1 /\ Failed(Len(attempts))) =>
          csv_pc \in {"returned", "write_timestamped", "write_home"}

\* C9 witness: all three writes failed and the call returned
C9_Witness ==
    /\ Len(attempts) = 3
    /\ \A i \in 1..3 : Failed(i)
    /\ csv_pc = "returned"
    /\ log[Len(log)] = "Failed to save results"


-----------------------------------------------------------------------------
(* C6, C7: the batch loop *)

\* the evaluate_image calls made so far, in order
EvaluateCalls == SelectSeq(calls, LAMBDA c : c.op = "evaluate_image")

Ids(seq) == [i \in 1..Len(seq) |-> seq[i].id]

\* C6: once evaluate_all_images has returned, the artworks it handed to
\* evaluate_image are the first min(limit, n) of the n the datastore query
\* returned, in the query's order, when limit > 0, and all n when limit = 0;
\* with the default limit of 5 there are never more than 5 evaluator calls.
C6_LimitSelectsFirst ==
    /\ batch_pc = "done" =>
          LET n == Len(queried)
              k == IF limit > 0 THEN Min(limit, n) ELSE n
          IN  Ids(EvaluateCalls) = Ids(SubSeq(queried, 1, k))
    /\ limit = DefaultLimit => Len(EvaluateCalls) <= 5 /\ Len(requests) <= 5

\* a run with the default limit over six artworks has returned after five calls
C6_Witness ==
    /\ batch_pc = "done"
    /\ limit = DefaultLimit
    /\ Len(queried) = 6
    /\ Ids(EvaluateCalls) = <<6, 5, 4, 3, 2>>

\* C7: once evaluate_all_images has returned, every selected artwork was
\* passed to evaluate_image exactly once, a call that returned None was
\* followed by the call for the next artwork, and the results are the
\* artworks whose call returned an evaluation, in order, each with it.
C7_EachOnceFailuresSkipped ==
    /\ \A i \in 1..Len(EvaluateCalls) : EvaluateCalls[i].id = artworks[i].id
    /\ Len(EvaluateCalls) <= Len(artworks)
    /\ LET succeeded == SelectSeq(EvaluateCalls, LAMBDA c : c.returned # None)
       IN  /\ Ids(results) = Ids(succeeded)
           /\ \A i \in 1..Len(results) :
                 results[i].new_evaluation = succeeded[i].returned
    /\ batch_pc = "done" => Len(EvaluateCalls) = Len(artworks)

\* a run of three artworks whose second call failed has returned the first
\* and the third
C7_Witness ==
    /\ batch_pc = "done"
    /\ Len(artworks) = 3
    /\ Len(EvaluateCalls) = 3
    /\ EvaluateCalls[1].returned # None
    /\ EvaluateCalls[2].returned = None
    /\ EvaluateCalls[3].returned # None
    /\ Ids(results) = <<artworks[1].id, artworks[3].id>>

-----------------------------------------------------------------------------
(* C10: the schema sent in quick sketch mode *)

Range(seq) == {seq[i] : i \in 1..Len(seq)}

\* C10: every request sent in quick sketch mode, by the batch script and by
\* the app, carries a schema whose top-level required list is exactly
\* generated_title and the four quick criteria, with additionalProperties
\* false at the top level and in every criterion object, each criterion
\* object requiring exactly score, rationale and improvement_tips.
C10_QuickSchemaExact ==
    \A i \in 1..Len(requests) :
        requests[i].sketch_type = "quick sketch" =>
            LET schema   == requests[i].schema
                criteria == DOMAIN schema.properties \ {"generated_title"}
            IN  /\ Range(schema.required) = {"generated_title"} \cup QuickCriteria
                /\ Len(schema.required) = 5
                /\ schema.additionalProperties = FALSE
                /\ criteria = QuickCriteria
                /\ \A c \in criteria :
                      /\ schema.properties[c].additionalProperties = FALSE
                      /\ Range(schema.properties[c].required)
                            = {"score", "rationale", "improvement_tips"}
                      /\ Len(schema.properties[c].required) = 3

\* both programs have sent a request in quick sketch mode
C10_Witness ==
    /\ \E i \in 1..Len(requests) :
          requests[i].by = "evaluate_images" /\ requests[i].sketch_type = "quick sketch"
    /\ \E i \in 1..Len(requests) :
          requests[i].by = "streamlit_app" /\ requests[i].sketch_type = "quick sketch"

-----------------------------------------------------------------------------
(* C11, C12: the schema of full realism mode, and invalid modes *)

\* C11: every request sent in full realism mode, by the batch script and by
\* the app, carries a schema that requires generated_title and all eight
\* criteria: the quick-sketch required set and exactly four more keys,
\* value_and_light, detail_and_texture, composition_and_perspective and
\* overall_realism.
C11_FullSchemaSuperset ==
    \A i \in 1..Len(requests) :
        requests[i].sketch_type = "full realism" =>
            LET required == Range(requests[i].schema.required)
                quick    == {"generated_title"} \cup QuickCriteria
            IN  /\ required = {"generated_title"} \cup FullCriteria
                /\ Len(requests[i].schema.required) = 9
                /\ quick \subseteq required
                /\ required \ quick = {"value_and_light", "detail_and_texture",
                                       "composition_and_perspective",
                                       "overall_realism"}
                /\ required \subseteq DOMAIN requests[i].schema.properties

\* both programs have sent a request in full realism mode
C11_Witness ==
    /\ \E i \in 1..Len(requests) :
          requests[i].by = "evaluate_images" /\ requests[i].sketch_type = "full realism"
    /\ \E i \in 1..Len(requests) :
          requests[i].by = "streamlit_app" /\ requests[i].sketch_type = "full realism"

\* C12 (as claimed): the evaluator's sketch_type is always one of the two
\* modes, and a request evaluate_image sends under a mode value outside the
\* two carries the full-realism schema.
C12_InvalidModeIsFullRealism ==
    /\ self_sketch_type \in SketchTypes
    /\ \A i \in 1..Len(requests) :
          (requests[i].by = "evaluate_images"
             /\ requests[i].sketch_type \notin SketchTypes) =>
              Range(requests[i].schema.required) = {"generated_title"} \cup FullCriteria

-----------------------------------------------------------------------------
(* C14: the columns insert_artwork writes *)

\* the three column names of criterion c in a stored row
ColumnNames(c) ==
    {InsertPrefix[c] \o "_score", InsertPrefix[c] \o "_rationale",
     InsertPrefix[c] \o "_tips"}

\* C14 (as claimed): the inserted row holds the score, rationale and tips
\* columns of a criterion if and only if the criterion is present in the
\* evaluation; an absent criterion contributes no columns.
C14_ColumnsIffPresent ==
    \A i \in 1..Len(db) :
        \A c \in FullCriteria :
            IF c \in DOMAIN inserted[i].evaluation_data
            THEN ColumnNames(c) \subseteq DOMAIN db[i]
            ELSE ColumnNames(c) \cap DOMAIN db[i] = {}

\* C14 (amended): the inserted row holds the three columns of a criterion
\* if and only if the criterion belongs to the rubric of the row's validated
\* sketch type, whether or not the evaluation contains it: a criterion of
\* the rubric that is absent from the evaluation is written as score 0,
\* rationale '' and tips [], and a criterion outside the rubric contributes
\* no columns even when the evaluation contains it.
C14_ColumnsOfRubric ==
    \A i \in 1..Len(db) :
        LET evaluation_data == inserted[i].evaluation_data
        IN  \A c \in FullCriteria :
                IF c \in Rubric(db[i].sketch_type)
                THEN /\ ColumnNames(c) \subseteq DOMAIN db[i]
                     /\ db[i][InsertPrefix[c] \o "_score"] =
                           IF c \in DOMAIN evaluation_data
                           THEN Get(evaluation_data[c], "score", 0) ELSE 0
                     /\ db[i][InsertPrefix[c] \o "_rationale"] =
                           IF c \in DOMAIN evaluation_data
                           THEN Get(evaluation_data[c], "rationale", "") ELSE ""
                     /\ db[i][InsertPrefix[c] \o "_tips"] =
                           IF c \in DOMAIN evaluation_data
                           THEN Get(evaluation_data[c], "improvement_tips", << >>)
                           ELSE << >>
                ELSE ColumnNames(c) \cap DOMAIN db[i] = {}

\* C14 witness: a quick-sketch row was inserted from an evaluation holding
\* value_and_light but no form_and_volume: it has zero-valued form_volume
\* columns and no value_light column
C14_Witness ==
    \E i \in 1..Len(db) :
        /\ db[i].sketch_type = "quick sketch"
        /\ "value_and_light" \in DOMAIN inserted[i].evaluation_data
        /\ "form_and_volume" \notin DOMAIN inserted[i].evaluation_data
        /\ db[i]["form_volume_score"] = 0
        /\ "value_light_score" \notin DOMAIN db[i]

-----------------------------------------------------------------------------
(* C13: the criteria un-flattening includes *)

\* the artworks un-flattened by utils/db.py and by evaluate_images.py
Structured == StructuredFetched \cup Range(queried)

\* the criterion of an un-flattened artwork holds the row's columns, a
\* missing rationale read as '' and missing tips as []
ReadsColumns(a, row, c) ==
    /\ a.evaluation_data[c].score = Get(row, ReadPrefix[c] \o "_score", 0)
    /\ a.evaluation_data[c].rationale = Get(row, ReadPrefix[c] \o "_rationale", "")
    /\ a.evaluation_data[c].improvement_tips = Get(row, ReadPrefix[c] \o "_tips", << >>)

\* C13 (as claimed): for each of the eight criteria, un-flattening a stored
\* row includes the criterion in evaluation_data if and only if its score
\* column is in the row, with rationale '' and tips [] when those columns
\* are absent.
C13_CriterionIffScoreColumn ==
    \A a \in Structured :
        \A c \in FullCriteria :
            /\ c \in DOMAIN a.evaluation_data
                  <=> (ReadPrefix[c] \o "_score") \in DOMAIN db[a.id]
            /\ c \in DOMAIN a.evaluation_data => ReadsColumns(a, db[a.id], c)

\* C13 (amended): un-flattening always includes proportion_and_structure and
\* line_quality, with score 0, rationale '' and tips [] for the columns the
\* row lacks; each of the six other criteria is included if and only if its
\* score column is in the row, with rationale '' and tips [] when those
\* columns are absent, and is omitted entirely otherwise.
C13_LaterCriteriaIffScoreColumn ==
    \A a \in Structured :
        /\ {"proportion_and_structure", "line_quality"} \subseteq DOMAIN a.evaluation_data
        /\ \A c \in FullCriteria \ {"proportion_and_structure", "line_quality"} :
              c \in DOMAIN a.evaluation_data
                  <=> (ReadPrefix[c] \o "_score") \in DOMAIN db[a.id]
        /\ \A c \in DOMAIN a.evaluation_data : ReadsColumns(a, db[a.id], c)
        /\ \A c \in FullCriteria :
              {ReadPrefix[c] \o "_score", ReadPrefix[c] \o "_rationale",
               ReadPrefix[c] \o "_tips"} \cap DOMAIN a = {}

\* C13 witness: a row with only the line_quality and form_volume score
\* columns was un-flattened: form_and_volume has the defaults for rationale
\* and tips, mood_and_expression is omitted and proportion_and_structure is
\* there with score 0
C13_Witness ==
    \E a \in Structured :
        /\ "proportion_score" \notin DOMAIN db[a.id]
        /\ "form_volume_score" \in DOMAIN db[a.id]
        /\ "form_volume_rationale" \notin DOMAIN db[a.id]
        /\ a.evaluation_data["form_and_volume"].rationale = ""
        /\ a.evaluation_data["form_and_volume"].improvement_tips = << >>
        /\ "mood_and_expression" \notin DOMAIN a.evaluation_data
        /\ a.evaluation_data["proportion_and_structure"].score = 0

-----------------------------------------------------------------------------
(* C15: stored rows without a sketch_type *)

NoSketchType(row) == "sketch_type" \notin DOMAIN row

\* the criteria un-flattening gives a stored row
StoredCriteria(row) == DOMAIN structure_artwork(row).evaluation_data

\* C15: a stored row without a sketch_type field is treated as full
\* realism: Previous Analyses averages every criterion of its evaluation,
\* the full-realism ones included, and plots it as full realism; the batch
\* script's result carries sketch_type 'full realism' and save_to_csv
\* processes all eight criteria for it, whatever the evaluator's own mode.
C15_MissingSketchTypeIsFullRealism ==
    /\ \A i \in 1..Len(listing) :
          NoSketchType(db[listing[i].id]) =>
              Len(listing[i].scores) = Cardinality(StoredCriteria(db[listing[i].id]))
    /\ \A i \in 1..Len(plot_data) :
          NoSketchType(db[plot_data[i].id]) => plot_data[i].sketch_type = "full realism"
    /\ \A i \in 1..Len(results) :
          NoSketchType(db[results[i].id]) => results[i].sketch_type = "full realism"
    /\ \A i \in Flattened :
          NoSketchType(db[results[i].id]) =>
              /\ flattened_results[i].d["sketch_type"] = "full realism"
              /\ \A c \in StoredCriteria(db[results[i].id]) :
                    ("existing_" \o c \o "_score") \in DOMAIN flattened_results[i].d

\* C15 witness: a row without sketch_type holding all eight criteria was
\* listed with eight scores and exported by a quick sketch evaluator with
\* its overall_realism score
C15_Witness ==
    /\ Len(db) = 1 /\ NoSketchType(db[1])
    /\ self_sketch_type = "quick sketch"
    /\ Len(listing) = 1 /\ Len(listing[1].scores) = 8
    /\ Len(flattened_results) = 1
    /\ "existing_overall_realism_score" \in DOMAIN flattened_results[1].d

-----------------------------------------------------------------------------
(* C16: the average of the criteria present *)

\* C16 (as claimed): the average computed for a stored evaluation is the
\* arithmetic mean of the scores of exactly the criteria present in it, in
\* the Previous Analyses list and in the CSV export alike, so the two agree.
C16_AverageOfPresentCriteria ==
    /\ \A i \in 1..Len(listing) :
          /\ "avg_score" \in DOMAIN listing[i]
          /\ FracEq(listing[i].avg_score,
                    Mean(structure_artwork(db[listing[i].id]).evaluation_data))
    /\ \A i \in Flattened :
          LET f == flattened_results[i].d
          IN  /\ "existing_average_raw_score" \in DOMAIN f
              /\ FracEq(f["existing_average_raw_score"],
                        Mean(results[i].evaluation_data))
              /\ "new_average_raw_score" \in DOMAIN f
              /\ FracEq(f["new_average_raw_score"], Mean(results[i].new_evaluation))

-----------------------------------------------------------------------------
(* C17: the curve of the average, not the average of the curves *)

\* the mean of the per-criterion curved scores of a score table
MeanOfCurved(d) ==
    Frac(sum([i \in 1..Len(d.curved_scores) |-> d.curved_scores[i].num]),
         Len(d.curved_scores))

Shown == displayed # None /\ "scores" \in DOMAIN displayed

\* some score lies below and some above the score b
Straddle(scores, b) ==
    /\ \E i \in 1..Len(scores) : scores[i] < b
    /\ \E i \in 1..Len(scores) : scores[i] > b

\* C17 (as claimed): the app's average curved score is the curve applied
\* to the average raw score, and it differs from the mean of the
\* per-criterion curved scores whenever the scores straddle a clamp
\* boundary (6 or 16).
C17_CurveOfAverageDiffersOnStraddle ==
    /\ Shown =>
          /\ FracEq(displayed.curved_avg_score,
                    adjust_score_on_curve(Frac(sum(displayed.scores),
                                               Len(displayed.scores))))
          /\ (Straddle(displayed.scores, 6) \/ Straddle(displayed.scores, 16))
                => ~FracEq(displayed.curved_avg_score, MeanOfCurved(displayed))
    /\ \A i \in 1..Len(plot_data) :
          FracEq(plot_data[i].curved_score,
                 adjust_score_on_curve(plot_data[i].raw_score))

\* C17 (amended): the app's average curved score, in the Analyze Artwork
\* table and in the Previous Analyses plot, is the curve applied to the
\* average raw score.  It differs from the mean of the per-criterion curved
\* scores when the scores straddle exactly one clamp boundary (some below
\* and some above 6 with none above 16, or some below and some above 16 with
\* none below 6); when they straddle both the two can coincide.
C17_CurveOfAverage ==
    /\ Shown =>
          LET scores == displayed.scores
          IN  /\ FracEq(displayed.avg_score, Frac(sum(scores), Len(scores)))
              /\ FracEq(displayed.curved_avg_score,
                        adjust_score_on_curve(Frac(sum(scores), Len(scores))))
              /\ \A i \in 1..Len(scores) :
                    displayed.curved_scores[i] = adjust_score_on_curve(Whole(scores[i]))
              /\ (Straddle(scores, 6) /\ \A i \in 1..Len(scores) : scores[i] <= 16)
                    => ~FracEq(displayed.curved_avg_score, MeanOfCurved(displayed))
              /\ (Straddle(scores, 16) /\ \A i \in 1..Len(scores) : scores[i] >= 6)
                    => ~FracEq(displayed.curved_avg_score, MeanOfCurved(displayed))
    /\ \A i \in 1..Len(plot_data) :
          FracEq(plot_data[i].curved_score,
                 adjust_score_on_curve(plot_data[i].raw_score))

\* C17 witness: a full realism table whose scores straddle 16 only is
\* shown with curved average 6.875, the mean of its curved scores being
\* 6.25, and an artwork is plotted
C17_Witness ==
    /\ Shown
    /\ displayed.scores = <<10, 12, 7, 9, 17, 13, 15, 20>>
    /\ displayed.curved_avg_score = Frac(55, 8)
    /\ MeanOfCurved(displayed) = Frac(50, 8)
    /\ Len(plot_data) >= 1

-----------------------------------------------------------------------------
(* C18: eight scores of 20 *)

AllTwenty(evaluation) ==
    /\ FullCriteria \subseteq DOMAIN evaluation
    /\ \A c \in FullCriteria : evaluation[c].score = 20

\* C18: for a full realism evaluation whose eight scores are all 20 the
\* average raw score is 20 and the average curved score is 10, in the
\* app's Previous Analyses list and plot and in the CSV export.
C18_AllTwentyAveragesTen ==
    /\ \A i \in 1..Len(listing) :
          LET a == structure_artwork(db[listing[i].id])
          IN  (AllTwenty(a.evaluation_data)
                 /\ Get(a, "sketch_type", "full realism") = "full realism") =>
                  /\ FracEq(listing[i].avg_score, Whole(20))
                  /\ FracEq(listing[i].curved_avg_score, Whole(10))
    /\ \A i \in 1..Len(plot_data) :
          LET a == structure_artwork(db[plot_data[i].id])
          IN  (AllTwenty(a.evaluation_data)
                 /\ Get(a, "sketch_type", "full realism") = "full realism") =>
                  /\ FracEq(plot_data[i].raw_score, Whole(20))
                  /\ FracEq(plot_data[i].curved_score, Whole(10))
    /\ \A i \in Flattened :
          LET f == flattened_results[i].d
          IN  /\ AllTwenty(results[i].evaluation_data) =>
                    /\ FracEq(f["existing_average_raw_score"], Whole(20))
                    /\ FracEq(f["existing_average_curved_score"], Whole(10))
              /\ AllTwenty(results[i].new_evaluation) =>
                    /\ FracEq(f["new_average_raw_score"], Whole(20))
                    /\ FracEq(f["new_average_curved_score"], Whole(10))

\* C18 witness: a stored evaluation of eight 20s was listed and exported
C18_Witness ==
    /\ Len(listing) = 1 /\ Len(flattened_results) = 1
    /\ AllTwenty(results[1].evaluation_data)
    /\ listing[1].avg_score = Frac(160, 8)
    /\ listing[1].curved_avg_score = Whole(10)
    /\ flattened_results[1].d["existing_average_raw_score"] = Frac(160, 8)
    /\ flattened_results[1].d["existing_average_curved_score"] = Whole(10)

-----------------------------------------------------------------------------
(* C19: no scores, no average *)

AverageFields(side) ==
    {side \o "_average_raw_score", side \o "_average_curved_score"}

\* the scores save_to_csv averages on one side: the non-zero scores of the
\* criteria it processes that the evaluation holds
Contributed(evaluation, i) ==
    {c \in DOMAIN evaluation :
        /\ c \in Range(criteria_fields(self_sketch_type,
                                       flattened_results[i].d["sketch_type"]))
        /\ evaluation[c].score # 0}

\* C19: an evaluation that contributes no scores gets no average: in
\* save_to_csv that side has no average raw score and no average curved
\* score and the result no average diff; in Previous Analyses an artwork
\* without scores gets no average; and no average is a division by zero.
C19_NoScoresNoAverage ==
    /\ \A i \in Flattened :
          LET f == flattened_results[i].d
          IN  /\ Contributed(results[i].evaluation_data, i) = {} =>
                    /\ AverageFields("existing") \cap DOMAIN f = {}
                    /\ {"average_score_diff", "average_curved_score_diff"}
                          \cap DOMAIN f = {}
              /\ Contributed(results[i].new_evaluation, i) = {} =>
                    /\ AverageFields("new") \cap DOMAIN f = {}
                    /\ {"average_score_diff", "average_curved_score_diff"}
                          \cap DOMAIN f = {}
              /\ \A k \in (AverageFields("existing") \cup AverageFields("new")
                            \cup {"average_score_diff", "average_curved_score_diff"})
                           \cap DOMAIN f : f[k].den # 0
    /\ \A i \in 1..Len(listing) :
          /\ listing[i].scores = << >> => DOMAIN listing[i] = {"id", "scores"}
          /\ "avg_score" \in DOMAIN listing[i] => listing[i].avg_score.den # 0
    /\ \A i \in 1..Len(plot_data) : plot_data[i].raw_score.den # 0

\* C19 witness: a stored row without any score was exported: no existing
\* average, no average diff, the new average being there
C19_Witness ==
    /\ Len(flattened_results) = 1
    /\ Contributed(results[1].evaluation_data, 1) = {}
    /\ "existing_average_raw_score" \notin DOMAIN flattened_results[1].d
    /\ "average_score_diff" \notin DOMAIN flattened_results[1].d
    /\ "new_average_raw_score" \in DOMAIN flattened_results[1].d

-----------------------------------------------------------------------------
(* C20: failures of external calls *)

\* C20 (as claimed): no exception of an external call leaves the component
\* that made the call: a failed upload, evaluator call or datastore call
\* of the Analyze Artwork flow ends in a sentinel, never in an exception
\* ending the run.
C20_NoExceptionEscapes == displayed # Raised

-----------------------------------------------------------------------------
(* C30: the sketch type of an inserted row *)

RealismColumns ==
    UNION {{ReadPrefix[c] \o "_score", ReadPrefix[c] \o "_rationale",
            ReadPrefix[c] \o "_tips"} : c \in RealismOnlyCriteria}

\* C30: every row insert_artwork sends has sketch_type 'quick sketch' or
\* 'full realism', any other input value being stored as 'full realism',
\* and a row inserted as 'quick sketch' holds none of the value_light,
\* detail_texture, composition_perspective and overall_realism columns,
\* whatever the evaluation data contained.
C30_StoredSketchTypeValid ==
    \A i \in 1..Len(db) :
        LET given == Get(inserted[i], "sketch_type", "full realism")
        IN  /\ db[i].sketch_type \in {"quick sketch", "full realism"}
            /\ given \in {"quick sketch", "full realism"} => db[i].sketch_type = given
            /\ given \notin {"quick sketch", "full realism"}
                  => db[i].sketch_type = "full realism"
            /\ db[i].sketch_type = "quick sketch"
                  => RealismColumns \cap DOMAIN db[i] = {}

\* C30 witness: an artwork given as 'watercolor' was stored as full
\* realism, and a quick sketch whose evaluation held all eight criteria was
\* stored without the full-realism columns
C30_Witness ==
    /\ Len(db) = 2
    /\ Get(inserted[1], "sketch_type", "") = "watercolor"
    /\ db[1].sketch_type = "full realism"
    /\ Get(inserted[2], "sketch_type", "") = "quick sketch"
    /\ DOMAIN Get(inserted[2], "evaluation_data", EmptyDict) = FullCriteria
    /\ "value_light_score" \notin DOMAIN db[2]
    /\ "form_volume_score" \in DOMAIN db[2]

-----------------------------------------------------------------------------
(* C22: the delay between evaluator calls *)

\* C22: evaluate_image is called for one artwork at a time, and a delay step
\* separates consecutive calls: every call in the log but one still awaiting
\* its delay is directly followed by a sleep, whether it returned an
\* evaluation or None, and the call for the next artwork starts only after
\* that sleep.
C22_DelayBetweenCalls ==
    /\ \A i \in 1..Len(calls) :
          calls[i].op = "evaluate_image" =>
             IF i < Len(calls) THEN calls[i + 1].op = "sleep"
             ELSE batch_pc = "sleep"
    /\ \A i \in 1..Len(calls) :
          calls[i].op = "sleep" => i > 1 /\ calls[i - 1].op = "evaluate_image"
    /\ batch_pc = "evaluate" =>
          (calls = << >> \/ calls[Len(calls)].op = "sleep")

\* C22 witness: a call that returned None and a call that returned an
\* evaluation were each followed by the delay before the third call
C22_Witness ==
    /\ Len(calls) = 5
    /\ calls[1].op = "evaluate_image" /\ calls[1].returned = None
    /\ calls[2].op = "sleep"
    /\ calls[3].op = "evaluate_image" /\ calls[3].returned # None
    /\ calls[4].op = "sleep"
    /\ calls[5].op = "evaluate_image"

-----------------------------------------------------------------------------
(* C26: the batch path leaves the datastore alone *)

\* the stored row an id names
RowOfId(id) == CHOOSE r \in Range(db) : r.id = id

\* C26: run_evaluation never writes to the datastore: all through the batch
\* run the rows are the ones stored before it, and the existing
\* evaluation_data carried into each result is the one read from the
\* result's row.
C26_BatchLeavesDatastore ==
    /\ db = [k \in 1..Len(db) |->
               Update(insert_row(stored_artwork_data(k), k), [id |-> k])]
    /\ \A i \in 1..Len(results) :
          /\ \E r \in Range(db) : r.id = results[i].id
          /\ results[i].evaluation_data =
                batch_structure_artwork(RowOfId(results[i].id)).evaluation_data

\* C26 witness: the batch run has evaluated two stored artworks and written
\* its CSV, and each result carries the scores stored for its artwork
C26_Witness ==
    /\ batch_pc = "done"
    /\ csv_pc = "returned"
    /\ Len(db) = 2
    /\ Len(results) = 2
    /\ results[1].evaluation_data # EmptyDict
    /\ results[1].evaluation_data =
          batch_structure_artwork(RowOfId(results[1].id)).evaluation_data

-----------------------------------------------------------------------------
(* C23: the order of the CSV's columns *)

\* the eight criteria in the order of the rubric
RubricOrder ==
    <<"proportion_and_structure", "line_quality", "form_and_volume",
      "mood_and_expression", "value_and_light", "detail_and_texture",
      "composition_and_perspective", "overall_realism">>

\* metadata, averages, then the five columns of each criterion
ClaimedColumnOrder ==
    << "id", "title", "artist_name", "created_at", "sketch_type",
       "generated_title", "image_url",
       "existing_average_raw_score", "new_average_raw_score", "average_score_diff",
       "existing_average_curved_score", "new_average_curved_score",
       "average_curved_score_diff" >>
    \o criteria_columns(RubricOrder)

-----------------------------------------------------------------------------
(* C27: the external calls of one Analyze Artwork *)

CallOps == [i \in 1..Len(analyze_calls) |-> analyze_calls[i].op]

\* C27: the external calls of one press of Analyze Artwork are made in the
\* order upload, evaluator, insert; the evaluator is called only if the
\* upload succeeded, and the insert only if the upload succeeded, the
\* response parsed and the storage checkbox was ticked: at most one insert
\* per press, and none when the checkbox is unticked.
C27_UploadEvaluateInsert ==
    /\ CallOps \in {<< >>, <<"upload_image">>,
                    <<"upload_image", "responses.create">>,
                    <<"upload_image", "responses.create", "insert_artwork">>}
    /\ Len(analyze_calls) >= 2 => analyze_calls[1].outcome = "ok"
    /\ Len(analyze_calls) = 3 =>
          /\ analyze_calls[1].outcome = "ok"
          /\ analyze_calls[2].outcome = "parsed"
          /\ store_in_db
    /\ ~store_in_db => Len(analyze_calls) <= 2

\* C27 witness: a press with the checkbox ticked made the three calls, the
\* insert storing the row
C27_Witness ==
    /\ store_in_db
    /\ Len(analyze_calls) = 3
    /\ analyze_calls[3] = [op |-> "insert_artwork", outcome |-> "ok"]
    /\ Len(db) = 1

\* a press with the checkbox unticked stopped after the parsed answer
C27_UncheckedWitness ==
    /\ ~store_in_db
    /\ Len(analyze_calls) = 2
    /\ analyze_calls[2].outcome = "parsed"
    /\ db = << >>

-----------------------------------------------------------------------------
(* C21: the batch script and failures *)

\* C21: the batch script never terminates abnormally because of a failure:
\* every failure, a missing OpenAI credential at start-up included, is
\* printed and the script goes on or ends normally; no exception leaves the
\* entry point.
C21_NoExceptionLeavesMain == main_pc # "raised"

\* the script ended normally after a run in which an evaluation failed and
\* every CSV write failed
C21_FailuresSurvived ==
    /\ main_pc = "exit"
    /\ \E i \in 1..Len(calls) :
          calls[i].op = "evaluate_image" /\ calls[i].returned = None
    /\ Len(attempts) = 3
    /\ \A i \in 1..3 : attempts[i].outcome # "ok"

-----------------------------------------------------------------------------
(* C29: tips through the CSV *)

\* a tip the round trip is claimed for: non-empty, without ';', without
\* leading or trailing whitespace, not ending in '.'
PlainTip(tip) ==
    /\ tip # << >>
    /\ \A i \in 1..Len(tip) : tip[i] # ";"
    /\ Head(tip) # " " /\ tip[Len(tip)] # " "
    /\ tip[Len(tip)] # "."

\* C29: for every list of tips whose elements are non-empty, hold no ';',
\* have no leading or trailing whitespace and do not end in '.',
\* parse_tips('; '.join(tips)) is the list again; parse_tips('') is [], and
\* parse_tips never returns an empty tip.
C29_TipsRoundTripNoEmptyTip ==
    tips_pc = "parsed" =>
        /\ (\A i \in 1..Len(new_tips) : PlainTip(new_tips[i]))
              => parsed_tips = new_tips
        /\ tips_string = << >> => parsed_tips = << >>
        /\ \A i \in 1..Len(parsed_tips) : parsed_tips[i] # << >>

\* C29, the round trip alone: the plain lists come back as they were, and
\* the empty cell gives the empty list
C29_TipsRoundTrip ==
    tips_pc = "parsed" =>
        /\ (\A i \in 1..Len(new_tips) : PlainTip(new_tips[i]))
              => parsed_tips = new_tips
        /\ tips_string = << >> => parsed_tips = << >>

\* a list of two plain tips, one with a leading period, came back from its
\* cell
C29_Witness ==
    /\ new_tips = << <<"a", "a">>, <<".", "a">> >>
    /\ tips_string = <<"a", "a", ";", " ", ".", "a">>
    /\ tips_pc = "parsed"
    /\ parsed_tips = new_tips

-----------------------------------------------------------------------------
(* C24, C25, C28: the update of stored rows from the CSV *)

\* the row as insert_artwork stored it, before any update
StoredRow(k) == Update(insert_row(stored_artwork_data(k), k), [id |-> k])

\* the columns update_artwork_from_csv may write
UpdatableColumns ==
    {"title", "description"}
    \cup UNION {{ReadPrefix[c] \o "_score", ReadPrefix[c] \o "_rationale",
                 ReadPrefix[c] \o "_tips"} : c \in FullCriteria}

\* the updates that reached the row with this id
UpdatesOf(k) ==
    SelectSeq(update_calls, LAMBDA u : u.outcome = "updated" /\ u.id = id_text(k))

\* C24: update_artwork_from_csv changes, on the rows matched by id, only
\* title (to the CSV's generated_title), description and the score,
\* rationale and tips columns; image_url, image_public_id, artist_name,
\* created_at, sketch_type, question and gpt_response keep their values, and
\* no row is inserted or deleted.
C24_UpdateFrame ==
    /\ Len(db) = Len(inserted)
    /\ \A k \in 1..Len(db) :
          /\ db[k].id = k
          /\ \A col \in (DOMAIN db[k] \cup DOMAIN StoredRow(k)) \ UpdatableColumns :
                /\ col \in DOMAIN db[k] /\ col \in DOMAIN StoredRow(k)
                /\ db[k][col] = StoredRow(k)[col]
          /\ UpdatesOf(k) = << >> => db[k] = StoredRow(k)
          /\ UpdatesOf(k) # << >> =>
                /\ db[k].title = csv_rows[UpdatesOf(k)[Len(UpdatesOf(k))].row].generated_title
                /\ db[k].description = "o3 re-eval"

\* C24 witness: the first stored row was updated from a CSV row naming
\* another artist and image, and kept its own; the second row was not touched
C24_Witness ==
    /\ update_pc = "returned"
    /\ Len(db) = 2
    /\ Len(UpdatesOf(1)) = 1
    /\ UpdatesOf(2) = << >>
    /\ csv_rows[1].artist_name # db[1].artist_name
    /\ db[1].title = "new title"
    /\ db[1].proportion_score = 15
    /\ db[1].proportion_tips = << <<"a">>, <<"b">> >>
    /\ db[2] = StoredRow(2)

\* C25: a failure on one CSV row affects that row alone: once
\* update_artwork_from_csv has gone through a file it opened, every row with
\* an id has had exactly one update attempt, whatever happened to the rows
\* before it (an empty score cell, an update that raised), and the rows
\* without id none.
C25_EachRowOneAttempt ==
    (update_pc = "returned" /\ row_idx >= 1) =>
        \A i \in 1..Len(csv_rows) :
            Len(SelectSeq(update_calls, LAMBDA u : u.row = i))
               = IF csv_rows[i].id = << >> THEN 0 ELSE 1

\* a row whose update raised was followed by the update of the next row
C25_RaisedUpdateSurvived ==
    /\ update_pc = "returned"
    /\ Len(update_calls) = 2
    /\ update_calls[1].outcome = "raised"
    /\ update_calls[2].outcome = "updated"

\* the last update that reached the row with this id
LastUpdate(k) == UpdatesOf(k)[Len(UpdatesOf(k))]

\* C28: the criterion to column-prefix mapping is the same in insert_artwork,
\* both copies of get_all_artworks, get_artwork_by_id and
\* update_artwork_from_csv: the score last written for a criterion, by the
\* insert or by an update from the CSV's new_<criterion>_score cell, is the
\* score each reader hands back under that criterion.
C28_SamePrefixEverywhere ==
    \A k \in 1..Len(db) :
       \A c \in FullCriteria :
          LET cell == "new_" \o c \o "_score"
              written ==
                 IF UpdatesOf(k) # << >> /\ cell \in DOMAIN csv_rows[LastUpdate(k).row]
                 THEN <<int_float(csv_rows[LastUpdate(k).row][cell]).value>>
                 ELSE IF c \in DOMAIN inserted[k].evaluation_data
                         /\ (inserted[k].sketch_type = "full realism"
                             \/ c \in QuickCriteria)
                 THEN <<inserted[k].evaluation_data[c].score>>
                 ELSE << >>
          IN  written # << >> =>
                 /\ c \in DOMAIN structure_artwork(db[k]).evaluation_data
                 /\ structure_artwork(db[k]).evaluation_data[c].score = written[1]
                 /\ c \in DOMAIN batch_structure_artwork(db[k]).evaluation_data
                 /\ batch_structure_artwork(db[k]).evaluation_data[c].score = written[1]

\* C28 witness: a row inserted with a mood and expression score of 15 was
\* given 14 by the update, and both readers hand back 14 for mood and
\* expression
C28_Witness ==
    /\ Len(db) >= 1
    /\ UpdatesOf(1) # << >>
    /\ inserted[1].evaluation_data["mood_and_expression"].score = 15
    /\ "new_mood_and_expression_score" \in DOMAIN csv_rows[LastUpdate(1).row]
    /\ csv_rows[LastUpdate(1).row]["new_mood_and_expression_score"] = <<"1", "4">>
    /\ structure_artwork(db[1]).evaluation_data["mood_and_expression"].score = 14
    /\ batch_structure_artwork(db[1]).evaluation_data["mood_and_expression"].score = 14
    /\ db[1].mood_expression_score = 14

====
